---- MODULE Spec2Model ----
(***************************************************************************)
(* Mython: the lexer (src/lexer.cpp) and the tree-walking evaluator        *)
(* (src/runtime.cpp, src/statement.cpp) as state machines.                 *)
(***************************************************************************)
EXTENDS Integers, Sequences, FiniteSets, TLC

VARIABLES
    source,     \* lexer: the whole character sequence handed to the stream
    lexer,      \* lexer: the Lexer object (in_, current_token_, str_indent_, spaces_in_str_begin, error)
    tokens,     \* lexer: every token produced so far (construction, then each NextToken call)
    phase,      \* lexer: "new" before construction, "ready" after, "error" once LexerError is thrown
    source2,    \* second lexer, run on source with one comment line inserted
    lexer2,
    tokens2,
    phase2,
    program,    \* evaluator: the statements of the program still to execute
    machine,    \* evaluator: closure, heap, output, error (see NewMachine)
    executed,   \* evaluator: the statement executed last, the machine before it, what it yielded
    classes,    \* classes: the classes built so far, each with its parent and the names it defines
    looked      \* classes: the last lookup of a method (class, name, what GetMethod returned)

lexVars == <<source, lexer, tokens, phase>>
lex2Vars == <<source2, lexer2, tokens2, phase2>>
evalVars == <<program, machine, executed>>
classVars == <<classes, looked>>
vars == <<source, lexer, tokens, phase, source2, lexer2, tokens2, phase2, program, machine, executed,
          classes, looked>>

(***************************************************************************)
(* Bounds of the model.                                                    *)
(***************************************************************************)
MaxLines == 3
\* calls of NextToken made after the first Eof
MaxEofCalls == 2
\* lines of the inputs a comment line is inserted into
MaxCommentLines == 2

(***************************************************************************)
(* std::istream over a character sequence.  Characters are one-character   *)
(* strings; EOFc is Traits::eof().                                         *)
(***************************************************************************)
EOFc == "EOF"

Stream(chars) ==
    [buf |-> chars, prev |-> EOFc, eofbit |-> FALSE, failbit |-> FALSE, badbit |-> FALSE]

good(s) == ~s.eofbit /\ ~s.failbit /\ ~s.badbit

\* operator!  (basic_ios::fail)
fail(s) == s.failbit \/ s.badbit

\* in_.peek(): the sentry sets failbit on a stream that is not good; reaching the
\* end of the buffer sets eofbit.
Peek(s) ==
    IF ~good(s) THEN [c |-> EOFc, s |-> [s EXCEPT !.failbit = TRUE]]
    ELSE IF s.buf = <<>> THEN [c |-> EOFc, s |-> [s EXCEPT !.eofbit = TRUE]]
    ELSE [c |-> Head(s.buf), s |-> s]

\* in_.get(): as peek, but extracts; extracting nothing sets failbit too.
Get(s) ==
    IF ~good(s) THEN [c |-> EOFc, s |-> [s EXCEPT !.failbit = TRUE]]
    ELSE IF s.buf = <<>> THEN [c |-> EOFc, s |-> [s EXCEPT !.eofbit = TRUE, !.failbit = TRUE]]
    ELSE [c |-> Head(s.buf), s |-> [s EXCEPT !.buf = Tail(s.buf), !.prev = Head(s.buf)]]

\* The characters of buf up to and including the first "\n" (all of buf if none).
RECURSIVE LineLen(_)
LineLen(buf) ==
    IF buf = <<>> THEN 0
    ELSE IF Head(buf) = "\n" THEN 1
    ELSE 1 + LineLen(Tail(buf))

\* getline(in_, comment): extracts through the delimiter, which it discards;
\* hitting the end of the buffer first sets eofbit (and failbit if nothing was read).
Getline(s) ==
    IF ~good(s) THEN [s EXCEPT !.failbit = TRUE]
    ELSE LET n == LineLen(s.buf)
             delim == n > 0 /\ s.buf[n] = "\n"
         IN  [s EXCEPT !.buf = SubSeq(s.buf, n + 1, Len(s.buf)),
                       !.prev = IF n = 0 THEN s.prev ELSE s.buf[n],
                       !.eofbit = ~delim,
                       !.failbit = (n = 0)]

\* in_.putback(c): clears eofbit first; fails (failbit) on a stream that is then
\* not good; the buffer takes back the character just read, and a different
\* character only if the buffer can be written (overwrite: a stringbuf opened
\* for output or a filebuf does, an input-only stringbuf sets badbit).
Putback(s, c, overwrite) ==
    LET t == [s EXCEPT !.eofbit = FALSE]
    IN  IF ~good(t) THEN [t EXCEPT !.failbit = TRUE]
        ELSE IF t.prev # EOFc /\ (t.prev = c \/ overwrite)
             THEN [t EXCEPT !.buf = <<c>> \o t.buf, !.prev = EOFc]
             ELSE [t EXCEPT !.badbit = TRUE]

(***************************************************************************)
(* Tokens.                                                                 *)
(***************************************************************************)
Tok(type) == [type |-> type, value |-> <<>>]
Valued(type, value) == [type |-> type, value |-> value]

Newline == Tok("Newline")
Indent == Tok("Indent")
Dedent == Tok("Dedent")
Eof == Tok("Eof")

Digits == {"0", "1", "2", "3", "4", "5", "6", "7", "8", "9"}
Letters == {"a", "b", "c", "d", "e", "f", "g", "h", "i", "j", "k", "l", "m",
            "n", "o", "p", "q", "r", "s", "t", "u", "v", "w", "x", "y", "z",
            "A", "B", "C", "D", "E", "F", "G", "H", "I", "J", "K", "L", "M",
            "N", "O", "P", "Q", "R", "S", "T", "U", "V", "W", "X", "Y", "Z"}

isdigit(c) == c \in Digits
isalpha(c) == c \in Letters
isalnum(c) == isdigit(c) \/ isalpha(c)

DigitValue(c) ==
    CASE c = "0" -> 0 [] c = "1" -> 1 [] c = "2" -> 2 [] c = "3" -> 3 [] c = "4" -> 4
      [] c = "5" -> 5 [] c = "6" -> 6 [] c = "7" -> 7 [] c = "8" -> 8 [] c = "9" -> 9

(***************************************************************************)
(* The private readers of the lexer.  Each takes the stream and yields the *)
(* stream after it, the token read, and the LexerError message ("" if      *)
(* none was thrown).                                                       *)
(***************************************************************************)
Read(tok, s) == [tok |-> tok, s |-> s, error |-> ""]
Throw(msg, s) == [tok |-> Eof, s |-> s, error |-> msg]

RECURSIVE ReadNumberLoop(_, _)
ReadNumberLoop(s, res) ==
    LET p == Peek(s)
    IN  IF isdigit(p.c)
        THEN LET g == Get(p.s) IN ReadNumberLoop(g.s, res * 10 + DigitValue(g.c))
        ELSE Read(Valued("Number", <<res>>), p.s)

ReadNumber(s) == ReadNumberLoop(s, 0)

Escaped(c) ==
    CASE c = "n" -> <<"\n">>
      [] c = "t" -> <<"\t">>
      [] c = "'" -> <<"'">>
      [] c = "\"" -> <<"\"">>
      [] OTHER -> <<>>

RECURSIVE ReadStringLoop(_, _, _)
ReadStringLoop(s, quot, line) ==
    IF fail(s) THEN Throw("String parsing error", s)
    ELSE LET p == Peek(s)
         IN  IF p.c = "\n" THEN Throw("String parsing error", p.s)
             ELSE LET p2 == Peek(p.s)
                  IN  IF p2.c = "\r" THEN Throw("String parsing error", p2.s)
                      ELSE LET p3 == Peek(p2.s)
                           IN  IF p3.c = "\\"
                               THEN LET g1 == Get(p3.s)
                                        g2 == Get(g1.s)
                                    IN  ReadStringLoop(g2.s, quot, line \o Escaped(g2.c))
                               ELSE LET p4 == Peek(p3.s)
                                    IN  IF p4.c = quot
                                        THEN Read(Valued("String", line), Get(p4.s).s)
                                        ELSE LET g == Get(p4.s)
                                             IN  ReadStringLoop(g.s, quot, Append(line, g.c))

ReadString(quot, s) == ReadStringLoop(s, quot, <<>>)

Keyword(line) ==
    CASE line = <<"c", "l", "a", "s", "s">> -> Tok("Class")
      [] line = <<"r", "e", "t", "u", "r", "n">> -> Tok("Return")
      [] line = <<"i", "f">> -> Tok("If")
      [] line = <<"e", "l", "s", "e">> -> Tok("Else")
      [] line = <<"d", "e", "f">> -> Tok("Def")
      [] line = <<"p", "r", "i", "n", "t">> -> Tok("Print")
      [] line = <<"a", "n", "d">> -> Tok("And")
      [] line = <<"o", "r">> -> Tok("Or")
      [] line = <<"n", "o", "t">> -> Tok("Not")
      [] line = <<"T", "r", "u", "e">> -> Tok("True")
      [] line = <<"F", "a", "l", "s", "e">> -> Tok("False")
      [] line = <<"N", "o", "n", "e">> -> Tok("None")
      [] OTHER -> Valued("Id", line)

RECURSIVE ReadIdentifierLoop(_, _)
ReadIdentifierLoop(s, line) ==
    LET p == Peek(s)
        p2 == IF isalnum(p.c) THEN p ELSE Peek(p.s)
    IN  IF isalnum(p.c) \/ p2.c = "_"
        THEN LET g == Get(p2.s) IN ReadIdentifierLoop(g.s, Append(line, g.c))
        ELSE Read(Keyword(line), p2.s)

ReadIdentifier(s) == ReadIdentifierLoop(s, <<>>)

ReadComparison(s) ==
    LET g == Get(s)
        p == Peek(g.s)
        g2 == IF p.c = "=" THEN Get(p.s) ELSE [c |-> EOFc, s |-> p.s]
        line == IF p.c = "=" THEN <<g.c, g2.c>> ELSE <<g.c>>
    IN  CASE line = <<"=", "=">> -> Read(Tok("Eq"), g2.s)
          [] line = <<"!", "=">> -> Read(Tok("NotEq"), g2.s)
          [] line = <<"<", "=">> -> Read(Tok("LessOrEq"), g2.s)
          [] line = <<">", "=">> -> Read(Tok("GreaterOrEq"), g2.s)
          [] line \in {<<"=">>, <<"<">>, <<">">>} -> Read(Valued("Char", <<line[1]>>), g2.s)
          [] OTHER -> Throw("Operator parsing error", g2.s)

RECURSIVE ReadSpacesLoop(_, _)
ReadSpacesLoop(s, n) ==
    LET p == Peek(s)
    IN  IF p.c = " " THEN ReadSpacesLoop(Get(p.s).s, n + 1) ELSE [s |-> p.s, n |-> n]

\* Lexer::ReadSpaces on the lexer object lx.
ReadSpaces(lx) ==
    LET r == ReadSpacesLoop(lx.in_, 0)
    IN  [lx EXCEPT !.in_ = r.s,
                   !.spaces_in_str_begin = r.n,
                   !.error = IF r.n % 2 = 1 THEN "Indent parsing error" ELSE @]

RECURSIVE SkipSpaces(_)
SkipSpaces(s) ==
    LET p == Peek(s)
    IN  IF p.c = " " THEN SkipSpaces(Get(p.s).s) ELSE p.s

(***************************************************************************)
(* Lexer::NextToken and the constructor, on the lexer object lx.           *)
(* overwrite says whether the stream's buffer can put back a character     *)
(* other than the one just read (see Putback).                             *)
(***************************************************************************)
Emit(lx, tok) == [lx EXCEPT !.current_token_ = tok]

\* lexer.cpp 128-148: the lexeme that starts at the next character c.
Lexeme(lx, c) ==
    LET r == IF isdigit(c) THEN ReadNumber(lx.in_)
             ELSE IF c \in {"'", "\""} THEN ReadString(c, Get(lx.in_).s)
             ELSE IF c = "_" \/ isalpha(c) THEN ReadIdentifier(lx.in_)
             ELSE IF c \in {"!", "=", "<", ">"} THEN ReadComparison(lx.in_)
             ELSE Read(Valued("Char", <<c>>), Get(lx.in_).s)
    IN  IF r.error # "" THEN [lx EXCEPT !.in_ = r.s, !.error = r.error]
        ELSE [lx EXCEPT !.in_ = r.s, !.current_token_ = r.tok]

StartsLexeme(c) ==
    \/ isdigit(c) \/ isalpha(c)
    \/ c \in {"'", "\"", "_", "!", "=", "<", ">", "+", "-", "*", "/", ":", "(", ")", ".", ","}

\* Mutant of Comment: the line break that ends the comment is not put back.
CommentNoPutback(s, overwrite) ==
    LET p == Peek(s)
    IN  IF p.c = "#" THEN Getline(p.s) ELSE p.s

\* lexer.cpp 91-95: a comment is read to the end of the line and the line break
\* is put back.
Comment(s, overwrite) ==
    LET p == Peek(s)
    IN  IF p.c = "#" THEN Putback(Getline(p.s), "\n", overwrite) ELSE p.s

\* Mutant of BreakEmitsNewline: every line break yields Newline.
BreakEmitsNewlineAlways(ct) == TRUE

\* lexer.cpp 100: a line break yields Newline unless the current token is one.
BreakEmitsNewline(ct) == ct # Newline

\* lexer.cpp 108-111: the guard of the Indent branch.
IndentGuard(lx) ==
    /\ \/ lx.current_token_ # Newline
       \/ lx.current_token_ # Indent
       \/ lx.current_token_ # Dedent
    /\ lx.spaces_in_str_begin > lx.str_indent_

\* Mutant of DedentGuard: no Dedent is ever produced.
DedentGuardNever(lx) == FALSE

\* lexer.cpp 115: the guard of the Dedent branch.
DedentGuard(lx) == lx.spaces_in_str_begin < lx.str_indent_

\* Mutant of EndToken: the current token is not compared with Eof.
EndTokenNoEofCheck(ct) ==
    IF ct # Newline /\ ct # Dedent THEN Newline ELSE Eof

\* lexer.cpp 120-127: the token at the end of the input.
EndToken(ct) ==
    IF ct # Newline /\ ct # Eof /\ ct # Dedent THEN Newline ELSE Eof

RECURSIVE NextToken(_, _)
NextToken(lx, overwrite) ==
    LET ct == lx.current_token_
        p2 == Peek(Comment(lx.in_, overwrite))
    IN  IF p2.c = "\n"
        THEN LET rs == ReadSpaces([lx EXCEPT !.in_ = Get(p2.s).s])
             IN  IF rs.error # "" THEN rs
                 ELSE IF BreakEmitsNewline(ct) THEN Emit(rs, Newline)
                 ELSE NextToken(rs, overwrite)
        ELSE LET l2 == [lx EXCEPT !.in_ = p2.s]
                 p3 == Peek(l2.in_)
             IN  IF IndentGuard(l2)
                 THEN Emit([l2 EXCEPT !.str_indent_ = @ + 2], Indent)
                 ELSE IF DedentGuard(l2)
                 THEN Emit([l2 EXCEPT !.str_indent_ = @ - 2], Dedent)
                 ELSE IF fail(l2.in_) THEN Emit(l2, EndToken(ct))
                 ELSE IF StartsLexeme(p3.c) THEN Lexeme([l2 EXCEPT !.in_ = p3.s], p3.c)
                 ELSE IF p3.c = " "
                 THEN NextToken([l2 EXCEPT !.in_ = SkipSpaces(p3.s)], overwrite)
                 ELSE IF p3.c = EOFc
                 THEN NextToken([l2 EXCEPT !.in_ = Peek(p3.s).s], overwrite)
                 \* any other character: nothing is consumed and NextToken calls
                 \* itself on the same state, without end
                 ELSE [l2 EXCEPT !.error = "NextToken recursion without end"]

NewLexer(chars) ==
    [in_ |-> Stream(chars), current_token_ |-> Newline,
     str_indent_ |-> 0, spaces_in_str_begin |-> 0, error |-> ""]

\* Lexer::Lexer
LexerCtor(chars, overwrite) ==
    LET rs == ReadSpaces(NewLexer(chars))
    IN  IF rs.error # "" THEN rs ELSE NextToken(rs, overwrite)

(***************************************************************************)
(* The inputs: up to MaxLines lines, each one of LineShapes, joined by     *)
(* "\n", with or without a "\n" after the last one.                        *)
(***************************************************************************)
LineShapes ==
    { <<>>,
      <<"a">>,
      <<" ", " ", "a">>,
      <<" ", " ", " ", " ", "a">>,
      <<" ", "a">>,
      <<" ", " ">>,
      <<"#", "a">>,
      <<" ", " ", "#">>,
      <<"a", " ", "#">>,
      <<"a", " ", ":">> }

RECURSIVE Join(_)
Join(ls) ==
    IF ls = <<>> THEN <<>>
    ELSE IF Len(ls) = 1 THEN ls[1]
    ELSE ls[1] \o <<"\n">> \o Join(Tail(ls))

LineSeqs(n) == UNION {[1..k -> LineShapes] : k \in 0..n}

Inputs(n) == {Join(ls) \o tail : ls \in LineSeqs(n), tail \in {<<>>, <<"\n">>}}

(***************************************************************************)
(* The runtime (src/runtime.h, src/runtime.cpp).                           *)
(*                                                                         *)
(* An ObjectHolder is a record tagged with the kind of object it holds:    *)
(* the empty holder, a Number, a String, a Bool, a Class (by name) or a    *)
(* ClassInstance (by its place in the heap, so that holders share it).     *)
(***************************************************************************)
NoneHolder == [t |-> "None"]
Number(n) == [t |-> "Number", n |-> n]
String(s) == [t |-> "String", s |-> s]
Bool(b) == [t |-> "Bool", b |-> b]
ClassObject(name) == [t |-> "Class", name |-> name]
Instance(id) == [t |-> "ClassInstance", id |-> id]

\* ObjectHolder::operator bool
NotEmpty(holder) == holder.t # "None"

\* runtime::IsTrue as it would be if Class objects and instances were true.
IsTrueOfObjects(object) ==
    CASE object.t = "Bool" -> object.b
      [] object.t = "Number" -> object.n # 0
      [] object.t = "String" -> object.s # ""
      [] OTHER -> object.t # "None"

\* runtime::IsTrue
IsTrue(object) ==
    CASE object.t = "Bool" -> object.b
      [] object.t = "Number" -> object.n # 0
      [] object.t = "String" -> object.s # ""
      [] OTHER -> FALSE

\* Closure: a map from names to holders.
EmptyClosure == [name \in {} |-> NoneHolder]

\* closure[name] = holder
Bind(closure, name, holder) ==
    [n \in DOMAIN closure \cup {name} |-> IF n = name THEN holder ELSE closure[n]]

\* struct Method
Method(name, formal_params, body) ==
    [name |-> name, formal_params |-> formal_params, body |-> body]

\* Class::Class: the table of the parent is copied, then every method of methods
\* is entered under its name.  parent is a class record, or NoClass.
NoClass == [name |-> "", vtbl |-> EmptyClosure]

RECURSIVE EnterMethodsNotOverriding(_, _)
EnterMethodsNotOverriding(vtbl, methods) ==
    IF methods = <<>> THEN vtbl
    ELSE EnterMethodsNotOverriding(IF Head(methods).name \in DOMAIN vtbl THEN vtbl
                                   ELSE Bind(vtbl, Head(methods).name, Head(methods)),
                                   Tail(methods))

RECURSIVE EnterMethods(_, _)
EnterMethods(vtbl, methods) ==
    IF methods = <<>> THEN vtbl
    ELSE EnterMethods(Bind(vtbl, Head(methods).name, Head(methods)), Tail(methods))

Class(name, methods, parent) ==
    [name |-> name, vtbl |-> EnterMethods(parent.vtbl, methods)]

\* Class::GetMethod: the method, or NoMethod for nullptr.
NoMethod == [name |-> "", formal_params |-> <<>>, body |-> [kind |-> "None"]]

GetMethod(cls, name) ==
    IF name \in DOMAIN cls.vtbl THEN cls.vtbl[name] ELSE NoMethod

\* ClassInstance::HasMethod
HasMethod(cls, method, argument_count) ==
    LET method_ptr == GetMethod(cls, method)
    IN  ~(method_ptr.name = "" \/ Len(method_ptr.formal_params) # argument_count)

(***************************************************************************)
(* The nodes of the syntax tree (src/statement.h).                         *)
(***************************************************************************)
NumericConst(n) == [kind |-> "NumericConst", num |-> n]
StringConst(s) == [kind |-> "StringConst", str |-> s]
BoolConst(b) == [kind |-> "BoolConst", bool |-> b]
None == [kind |-> "None"]
\* a std::unique_ptr<Statement> that holds nothing
Nullptr == [kind |-> "nullptr"]
VariableValue(dotted_ids) == [kind |-> "VariableValue", var_name_chain_ |-> dotted_ids]
Assignment(var, rv) == [kind |-> "Assignment", var_name_ |-> var, value_ |-> rv]
FieldAssignment(object, field_name, rv) ==
    [kind |-> "FieldAssignment", obj_ |-> object, field_name_ |-> field_name, value_ |-> rv]
PrintNode(args) == [kind |-> "Print", args_ |-> args]
MethodCall(object, method, args) ==
    [kind |-> "MethodCall", obj_ |-> object, method_name_ |-> method, args_ |-> args]
NewInstance(class, args) == [kind |-> "NewInstance", class_ |-> class, args_ |-> args]
Stringify(argument) == [kind |-> "Stringify", arg_ |-> argument]
Add(lhs, rhs) == [kind |-> "Add", lhs_ |-> lhs, rhs_ |-> rhs]
Sub(lhs, rhs) == [kind |-> "Sub", lhs_ |-> lhs, rhs_ |-> rhs]
Mult(lhs, rhs) == [kind |-> "Mult", lhs_ |-> lhs, rhs_ |-> rhs]
Div(lhs, rhs) == [kind |-> "Div", lhs_ |-> lhs, rhs_ |-> rhs]
Or(lhs, rhs) == [kind |-> "Or", lhs_ |-> lhs, rhs_ |-> rhs]
And(lhs, rhs) == [kind |-> "And", lhs_ |-> lhs, rhs_ |-> rhs]
Not(argument) == [kind |-> "Not", arg_ |-> argument]
Comparison(cmp, lhs, rhs) == [kind |-> "Comparison", cmp_ |-> cmp, lhs_ |-> lhs, rhs_ |-> rhs]
Compound(commands) == [kind |-> "Compound", commands_ |-> commands]
MethodBody(body) == [kind |-> "MethodBody", body_ |-> body]
Return(statement) == [kind |-> "Return", statement_ |-> statement]
ClassDefinition(cls) == [kind |-> "ClassDefinition", class_ |-> cls]
IfElse(condition, if_body, else_body) ==
    [kind |-> "IfElse", condition_ |-> condition, if_body_ |-> if_body, else_body_ |-> else_body]

(***************************************************************************)
(* The machine an Execute runs on: the closure of the current call frame,  *)
(* the heap of class instances, the text written to the output stream of   *)
(* the context, the message of the runtime_error thrown ("" if none), and  *)
(* the ClassDefinition nodes whose class_ holder has been moved from.      *)
(* returned, retval, late and calls record, for the current call frame,    *)
(* whether a Return node has been executed, what its expression yielded    *)
(* and whether a node was executed after it, and the finished calls.       *)
(* frames are the call frames below the current one: the closure of each   *)
(* caller and the argument values it holds for the call.                   *)
(***************************************************************************)
NewMachine ==
    [closure |-> EmptyClosure, heap |-> <<>>, out |-> "", error |-> "", moved |-> {},
     returned |-> FALSE, retval |-> NoneHolder, late |-> FALSE, calls |-> <<>>,
     frames |-> <<>>]

\* No statement has been executed yet.
NoLast == [node |-> Nullptr, pre |-> NewMachine, val |-> NoneHolder]

\* No method has been looked up yet.
NoLook == [class |-> 0, name |-> "", method |-> NoMethod]

\* What an Execute yields: the holder, the machine it leaves, and whether the
\* holder is the sole owner of its object (ObjectHolder::Own of a new object).
Result(val, m) == [val |-> val, m |-> m, sole |-> FALSE]
Own(val, m) == [val |-> val, m |-> m, sole |-> TRUE]
Failed(r) == r.m.error # ""

\* throw std::runtime_error(msg)
Raise(msg, m) == Result(NoneHolder, [m EXCEPT !.error = msg])

\* a null pointer is dereferenced, or a signed operation overflows
UndefinedBehaviour == "undefined behaviour"
Undefined(m) == Raise(UndefinedBehaviour, m)

\* os << text
Write(m, text) == [m EXCEPT !.out = @ \o text]

\* The values of int.
INT_MAX == 2147483647
INT_MIN == -INT_MAX - 1

\* a + b, a - b, a * b, a / b leave int
AddOverflows(a, b) == (b > 0 /\ a > INT_MAX - b) \/ (b < 0 /\ a < INT_MIN - b)
SubOverflows(a, b) == (b < 0 /\ a > INT_MAX + b) \/ (b > 0 /\ a < INT_MIN + b)
MultOverflows(a, b) ==
    IF a = 0 \/ b = 0 THEN FALSE
    ELSE IF a = INT_MIN THEN b # 1
    ELSE IF b = INT_MIN THEN a # 1
    ELSE LET x == IF a < 0 THEN -a ELSE a
             y == IF b < 0 THEN -b ELSE b
             q == INT_MAX \div y
         IN  IF (a < 0) = (b < 0) THEN x > q
             ELSE ~(x <= q \/ (x = q + 1 /\ INT_MAX % y = y - 1))
DivOverflows(a, b) == a = INT_MIN /\ b = -1

\* int / int, truncated toward zero
\* (for a / b that stays in int; no intermediate value leaves int either)
TruncDiv(a, b) ==
    IF b = INT_MIN THEN (IF a = INT_MIN THEN 1 ELSE 0)
    ELSE LET y == IF b < 0 THEN -b ELSE b
         IN  IF a = INT_MIN
             THEN LET q == (INT_MAX \div y) + (IF INT_MAX % y = y - 1 THEN 1 ELSE 0)
                  IN  IF b < 0 THEN q
                      ELSE -(INT_MAX \div y) - (IF INT_MAX % y = y - 1 THEN 1 ELSE 0)
             ELSE LET q == (IF a < 0 THEN -a ELSE a) \div y
                  IN  IF (a < 0) # (b < 0) THEN -q ELSE q

\* The string values the programs compare, in the order of std::string's operator<.
Strings == <<"", "a", "ab", "b">>
StringIndex(x) == CHOOSE i \in 1..Len(Strings) : Strings[i] = x
StringLess(x, y) == StringIndex(x) < StringIndex(y)

(***************************************************************************)
(* The classes of the programs.  ClassNamed yields the runtime::Class a    *)
(* ClassDefinition or NewInstance node refers to.                          *)
(***************************************************************************)
Range(seq) == {seq[i] : i \in DOMAIN seq}

RECURSIVE SetToSeq(_)
SetToSeq(set) ==
    IF set = {} THEN <<>>
    ELSE LET x == CHOOSE y \in set : TRUE
         IN  <<x>> \o SetToSeq(set \ {x})

Self == VariableValue(<<"self">>)
Say(text) == PrintNode(<<StringConst(text)>>)

\* A class whose methods write to the output, change a field, and hand back
\* self, a constant or their argument.
Probe ==
    Class("Probe",
          << Method("say", <<>>, MethodBody(Compound(<<Say("say")>>))),
             Method("me", <<>>, MethodBody(Compound(<<Say("me"), Return(Self)>>))),
             Method("yes", <<>>, MethodBody(Compound(<<Say("yes"), Return(BoolConst(TRUE))>>))),
             Method("no", <<>>, MethodBody(Compound(<<Say("no"), Return(BoolConst(FALSE))>>))),
             Method("set", <<"v">>,
                    MethodBody(Compound(<<FieldAssignment(Self, "f", VariableValue(<<"v">>))>>))),
             Method("take", <<"a">>, MethodBody(Compound(<<Return(VariableValue(<<"a">>))>>))),
             Method("take2", <<"a", "b">>,
                    MethodBody(Compound(<<PrintNode(<<VariableValue(<<"a">>),
                                                      VariableValue(<<"b">>)>>)>>))) >>,
          NoClass)

\* Return(v) under at most depth IfElse and Compound nodes, each with the name
\* of the method that holds it.
MaxDepth == 2

RECURSIVE Nested(_)
Nested(depth) ==
    IF depth = 0 THEN {[name |-> "r", stmt |-> Return(VariableValue(<<"v">>))]}
    ELSE LET inner == Nested(depth - 1)
         IN  inner
             \cup {[name |-> n.name \o "I",
                    stmt |-> IfElse(BoolConst(TRUE), n.stmt, Nullptr)] : n \in inner}
             \cup {[name |-> n.name \o "E",
                    stmt |-> IfElse(BoolConst(FALSE), None, n.stmt)] : n \in inner}
             \cup {[name |-> n.name \o "C", stmt |-> Compound(<<n.stmt>>)] : n \in inner}

\* Methods of one parameter v whose body executes the nested Return(v), then
\* writes "late" and returns 7.
Returning ==
    Class("Returning",
          SetToSeq({Method(n.name, <<"v">>,
                           MethodBody(Compound(<<n.stmt, Say("late"),
                                                 Return(NumericConst(7))>>)))
                    : n \in Nested(MaxDepth)}),
          NoClass)

\* Methods of one parameter v whose body holds no Return node.
Falling ==
    Class("Falling",
          << Method("empty", <<"v">>, MethodBody(Compound(<<>>))),
             Method("expr", <<"v">>, MethodBody(Compound(<<VariableValue(<<"v">>)>>))),
             Method("assign", <<"v">>,
                    MethodBody(Compound(<<Assignment("x", VariableValue(<<"v">>))>>))),
             Method("ifexpr", <<"v">>,
                    MethodBody(Compound(<<IfElse(BoolConst(TRUE), VariableValue(<<"v">>),
                                                 Nullptr)>>))),
             Method("elseexpr", <<"v">>,
                    MethodBody(Compound(<<IfElse(BoolConst(FALSE), None,
                                                 VariableValue(<<"v">>))>>))),
             Method("noelse", <<"v">>,
                    MethodBody(Compound(<<IfElse(BoolConst(FALSE), VariableValue(<<"v">>),
                                                 Nullptr)>>))),
             Method("inner", <<"v">>,
                    MethodBody(Compound(<<Compound(<<IfElse(BoolConst(TRUE),
                                                            VariableValue(<<"v">>),
                                                            Nullptr)>>)>>))),
             Method("bareif", <<"v">>,
                    MethodBody(IfElse(BoolConst(TRUE), VariableValue(<<"v">>), Nullptr))),
             Method("bare", <<"v">>, MethodBody(VariableValue(<<"v">>))),
             Method("bareassign", <<"v">>,
                    MethodBody(Assignment("x", VariableValue(<<"v">>)))),
             Method("bareprint", <<"v">>, MethodBody(PrintNode(<<VariableValue(<<"v">>)>>))) >>,
          NoClass)

\* Classes with __eq__: of one parameter yielding a Bool, None or a Number,
\* and of no parameter.
EqTrue ==
    Class("EqTrue",
          <<Method("__eq__", <<"o">>, MethodBody(Compound(<<Return(BoolConst(TRUE))>>)))>>,
          NoClass)
EqFalse ==
    Class("EqFalse",
          <<Method("__eq__", <<"o">>, MethodBody(Compound(<<Return(BoolConst(FALSE))>>)))>>,
          NoClass)
EqNone ==
    Class("EqNone", <<Method("__eq__", <<"o">>, MethodBody(Compound(<<>>)))>>, NoClass)
EqNumber ==
    Class("EqNumber",
          <<Method("__eq__", <<"o">>, MethodBody(Compound(<<Return(NumericConst(1))>>)))>>,
          NoClass)
EqNoParam ==
    Class("EqNoParam",
          <<Method("__eq__", <<>>, MethodBody(Compound(<<Return(BoolConst(TRUE))>>)))>>,
          NoClass)

\* A class whose __eq__ yields its argument, and classes with __lt__: of one
\* parameter yielding a Bool, alone or next to __eq__.
EqArg ==
    Class("EqArg",
          <<Method("__eq__", <<"o">>,
                   MethodBody(Compound(<<Say("eq"), Return(VariableValue(<<"o">>))>>)))>>,
          NoClass)
LtTrue ==
    Class("LtTrue",
          <<Method("__lt__", <<"o">>,
                   MethodBody(Compound(<<Say("lt"), Return(BoolConst(TRUE))>>)))>>,
          NoClass)
LtFalse ==
    Class("LtFalse",
          <<Method("__lt__", <<"o">>,
                   MethodBody(Compound(<<Say("lt"), Return(BoolConst(FALSE))>>)))>>,
          NoClass)
LtEq ==
    Class("LtEq",
          <<Method("__lt__", <<"o">>,
                   MethodBody(Compound(<<Say("lt"), Return(BoolConst(FALSE))>>))),
            Method("__eq__", <<"o">>,
                   MethodBody(Compound(<<Say("eq"), Return(BoolConst(TRUE))>>)))>>,
          NoClass)
LtNone ==
    Class("LtNone", <<Method("__lt__", <<"o">>, MethodBody(Compound(<<>>)))>>, NoClass)

\* Classes with __init__: Base has one of no parameter, Child inherits it,
\* Hidden replaces it by one of one parameter that returns a value.
Base ==
    Class("Base",
          <<Method("__init__", <<>>,
                   MethodBody(Compound(<<Say("init"),
                                         FieldAssignment(Self, "f", NumericConst(1))>>)))>>,
          NoClass)
Child == Class("Child", <<>>, Base)
Hidden ==
    Class("Hidden",
          <<Method("__init__", <<"a">>,
                   MethodBody(Compound(<<FieldAssignment(Self, "g", VariableValue(<<"a">>)),
                                         Return(NumericConst(5))>>)))>>,
          Base)

\* Classes with __str__ of no parameter: yielding the String of a constant,
\* writing before it does, yielding a String it has just built, a Number,
\* or nothing.
Named ==
    Class("Named",
          <<Method("__str__", <<>>, MethodBody(Compound(<<Return(StringConst("named"))>>)))>>,
          NoClass)
Loud ==
    Class("Loud",
          <<Method("__str__", <<>>,
                   MethodBody(Compound(<<Say("str"), Return(StringConst("loud"))>>)))>>,
          NoClass)
StrNew ==
    Class("StrNew",
          <<Method("__str__", <<>>,
                   MethodBody(Compound(<<Return(Add(StringConst("a"), StringConst("b")))>>)))>>,
          NoClass)
StrNum ==
    Class("StrNum",
          <<Method("__str__", <<>>, MethodBody(Compound(<<Return(NumericConst(5))>>)))>>,
          NoClass)
StrNone ==
    Class("StrNone", <<Method("__str__", <<>>, MethodBody(Compound(<<>>)))>>, NoClass)

\* A class whose method holds the definition of another class in its body.
Definer ==
    Class("Definer",
          <<Method("define", <<>>,
                   MethodBody(Compound(<<ClassDefinition("Inner"),
                                         Return(VariableValue(<<"Inner">>))>>)))>>,
          NoClass)

\* A class whose methods read a name of their caller, assign a local name,
\* and call one another after assigning the same local name.
Scoped ==
    Class("Scoped",
          << Method("peek", <<>>, MethodBody(Compound(<<Return(VariableValue(<<"g">>))>>))),
             Method("local", <<"v">>,
                    MethodBody(Compound(<<Assignment("g", VariableValue(<<"v">>)),
                                          Return(VariableValue(<<"g">>))>>))),
             Method("nest", <<"v">>,
                    MethodBody(Compound(<<Assignment("g", VariableValue(<<"v">>)),
                                          MethodCall(Self, "local", <<NumericConst(0)>>),
                                          Return(VariableValue(<<"g">>))>>))),
             Method("rec", <<"n">>,
                    MethodBody(Compound(
                        <<Assignment("g", VariableValue(<<"n">>)),
                          IfElse(VariableValue(<<"n">>),
                                 Compound(<<Assignment("t",
                                     MethodCall(Self, "rec",
                                                <<Sub(VariableValue(<<"n">>),
                                                      NumericConst(1))>>))>>),
                                 Nullptr),
                          Return(VariableValue(<<"g">>))>>))) >>,
          NoClass)

ClassTable == {Probe, Returning, Falling, EqTrue, EqFalse, EqNone, EqNumber, EqNoParam,
               Scoped, EqArg, LtTrue, LtFalse, LtEq, LtNone,
               Base, Child, Hidden, Named, Loud, StrNew, StrNum, StrNone, Definer}
ClassNamed(name) ==
    CASE name = "Probe" -> Probe
      [] name = "Returning" -> Returning
      [] name = "Falling" -> Falling
      [] name = "EqTrue" -> EqTrue
      [] name = "EqFalse" -> EqFalse
      [] name = "EqNone" -> EqNone
      [] name = "EqNumber" -> EqNumber
      [] name = "EqNoParam" -> EqNoParam
      [] name = "Scoped" -> Scoped
      [] name = "EqArg" -> EqArg
      [] name = "LtTrue" -> LtTrue
      [] name = "LtFalse" -> LtFalse
      [] name = "LtEq" -> LtEq
      [] name = "LtNone" -> LtNone
      [] name = "Base" -> Base
      [] name = "Child" -> Child
      [] name = "Hidden" -> Hidden
      [] name = "Named" -> Named
      [] name = "Loud" -> Loud
      [] name = "StrNew" -> StrNew
      [] name = "StrNum" -> StrNum
      [] name = "StrNone" -> StrNone
      [] name = "Definer" -> Definer

(***************************************************************************)
(* Execute (src/statement.cpp) and the runtime it calls (src/runtime.cpp). *)
(***************************************************************************)
RECURSIVE Execute(_, _)
RECURSIVE Call(_, _, _, _)

\* A local variable of the code: value is computed once and Rest uses it.
With(value, Rest(_)) == CHOOSE x \in {Rest(v) : v \in {value}} : TRUE

\* for (auto& ptr : args) values.push_back(ptr->Execute(closure, context))
RECURSIVE ExecuteArgs(_, _, _)
ExecuteArgs(args, values, m) ==
    IF args = <<>> \/ m.error # "" THEN [values |-> values, m |-> m]
    ELSE With(Execute(Head(args), m),
              LAMBDA r : ExecuteArgs(Tail(args), Append(values, r.val), r.m))

ClassOf(holder, m) == ClassNamed(m.heap[holder.id].class)

\* obj = holder.TryAs<runtime::ClassInstance>(); obj && obj->HasMethod(method, count)
InstanceHasMethod(holder, method, argument_count, m) ==
    /\ holder.t = "ClassInstance"
    /\ HasMethod(ClassOf(holder, m), method, argument_count)

\* closure[par_name] = *par, for every formal parameter in order
RECURSIVE BindAll(_, _, _)
BindAll(closure, names, holders) ==
    IF names = <<>> THEN closure
    ELSE BindAll(Bind(closure, Head(names), Head(holders)), Tail(names), Tail(holders))

\* The machine when a call has returned: the closure of the caller is the
\* one in use again, and the call is noted if it ended without an exception.
Returned(method, self, actual_args, closure, r, m) ==
    [r EXCEPT !.m = [r.m EXCEPT !.closure = m.closure,
                                !.frames = m.frames,
                                !.returned = m.returned,
                                !.retval = m.retval,
                                !.late = m.late,
                                !.calls = IF r.m.error # "" THEN @
                                          ELSE Append(@, [method |-> method,
                                                          self |-> self,
                                                          args |-> actual_args,
                                                          entry |-> closure,
                                                          exit |-> r.m.closure,
                                                          returned |-> r.m.returned,
                                                          retval |-> r.m.retval,
                                                          late |-> r.m.late,
                                                          result |-> r.val])]]

\* ClassInstance::Call as it would be if the body ran on the scope of the
\* caller, extended with self and the parameters.
CallOnCallerScope(self, method, actual_args, m) ==
    IF ~HasMethod(ClassOf(self, m), method, Len(actual_args))
    THEN Raise("Method can not be found", m)
    ELSE LET method_ptr == GetMethod(ClassOf(self, m), method)
             closure == BindAll(Bind(m.closure, "self", self),
                                method_ptr.formal_params, actual_args)
         IN  With(Execute(method_ptr.body,
                          [m EXCEPT !.closure = closure, !.returned = FALSE,
                                    !.retval = NoneHolder, !.late = FALSE,
                                    !.frames = Append(@, [closure |-> m.closure,
                                                          args |-> actual_args])]),
                  LAMBDA r : Returned(method, self, actual_args, closure, r, m))

\* ClassInstance::Call.  The body runs on a new closure.
Call(self, method, actual_args, m) ==
    IF ~HasMethod(ClassOf(self, m), method, Len(actual_args))
    THEN Raise("Method can not be found", m)
    ELSE LET method_ptr == GetMethod(ClassOf(self, m), method)
             closure == BindAll(Bind(EmptyClosure, "self", self),
                                method_ptr.formal_params, actual_args)
         IN  With(Execute(method_ptr.body,
                          [m EXCEPT !.closure = closure, !.returned = FALSE,
                                    !.retval = NoneHolder, !.late = FALSE,
                                    !.frames = Append(@, [closure |-> m.closure,
                                                          args |-> actual_args])]),
                  LAMBDA r : Returned(method, self, actual_args, closure, r, m))

\* The text of os << this.
Address(self) == "<" \o ToString(self.id) \o ">"

\* Object::Print into a stream: the text written, and the machine after the
\* call of __str__ that ClassInstance::Print makes.
Text(text, m) == [text |-> text, m |-> m]

\* str.TryAs<String>()->GetValue()
AsString(str) ==
    IF Failed(str) THEN Text("", str.m)
    ELSE IF str.val.t # "String" THEN Text("", Undefined(str.m).m)
    ELSE Text(str.val.s, str.m)

PrintObject(object, m) ==
    CASE object.t = "Number" -> Text(ToString(object.n), m)
      [] object.t = "String" -> Text(object.s, m)
      [] object.t = "Bool" -> Text(IF object.b THEN "True" ELSE "False", m)
      [] object.t = "Class" -> Text("Class " \o object.name, m)
      [] object.t = "ClassInstance" ->
           IF ~HasMethod(ClassOf(object, m), "__str__", 0) THEN Text(Address(object), m)
           ELSE With(Call(object, "__str__", <<>>, m), LAMBDA str : AsString(str))

\* ValueStatement::Execute and Const nodes: the value the node holds
NumericConst_Execute(node, m) == Result(Number(node.num), m)
StringConst_Execute(node, m) == Result(String(node.str), m)
BoolConst_Execute(node, m) == Result(Bool(node.bool), m)
None_Execute(node, m) == Result(NoneHolder, m)

\* Assignment::Execute as it would be if an instance were copied into the
\* variable: the new instance has the class and the fields of the old one.
AssignmentOfCopy(node, m) ==
    With(Execute(node.value_, m),
         LAMBDA r : IF Failed(r) THEN r
                    ELSE IF r.val.t # "ClassInstance"
                    THEN Result(r.val, [r.m EXCEPT !.closure = Bind(@, node.var_name_, r.val)])
                    ELSE LET copy == Instance(Len(r.m.heap) + 1)
                         IN  Result(copy,
                                    [r.m EXCEPT !.heap = Append(@, r.m.heap[r.val.id]),
                                                !.closure = Bind(@, node.var_name_, copy)]))

Assignment_Execute(node, m) ==
    With(Execute(node.value_, m),
         LAMBDA r : IF Failed(r) THEN r
                    ELSE Result(r.val, [r.m EXCEPT !.closure = Bind(@, node.var_name_, r.val)]))

\* VariableValue::FindVariable and the loop of VariableValue::Execute
RECURSIVE FindField(_, _, _)
FindField(obj, names, m) ==
    IF names = <<>> THEN Result(obj, m)
    ELSE IF obj.t # "ClassInstance" THEN Raise("Wrong type", m)
    ELSE LET fields_closure == m.heap[obj.id].fields
         IN  IF Head(names) \notin DOMAIN fields_closure THEN Raise("Unknown variable", m)
             ELSE FindField(fields_closure[Head(names)], Tail(names), m)

VariableValue_Execute(node, m) ==
    IF node.var_name_chain_[1] \notin DOMAIN m.closure THEN Raise("Unknown variable", m)
    ELSE FindField(m.closure[node.var_name_chain_[1]], Tail(node.var_name_chain_), m)

\* Print::Execute: the loop over args_, then os << "\n"
RECURSIVE PrintArgs(_, _, _)

\* holder->Print(os, context), or os << "None"
PrintHolder(args, holder) ==
    IF Failed(holder) THEN holder
    ELSE IF NotEmpty(holder.val)
    THEN With(PrintObject(holder.val, holder.m),
              LAMBDA printed : IF printed.m.error # "" THEN Result(NoneHolder, printed.m)
                               ELSE PrintArgs(Tail(args), TRUE,
                                              Write(printed.m, printed.text)))
    ELSE PrintArgs(Tail(args), TRUE, Write(holder.m, "None"))

\* The loop of Print::Execute as it would be without os << " ".
PrintArgsUnseparated(args, is_not_first, m) ==
    IF args = <<>> THEN Result(NoneHolder, Write(m, "\n"))
    ELSE With(Execute(Head(args), m), LAMBDA holder : PrintHolder(args, holder))

PrintArgs(args, is_not_first, m) ==
    IF args = <<>> THEN Result(NoneHolder, Write(m, "\n"))
    ELSE With(Execute(Head(args), IF is_not_first THEN Write(m, " ") ELSE m),
              LAMBDA holder : PrintHolder(args, holder))

Print_Execute(node, m) == PrintArgs(node.args_, FALSE, m)

\* MethodCall::Execute after the loop over args_
CallReceiver(node, arg_values) ==
    With(Execute(node.obj_, arg_values.m),
         LAMBDA holder :
             IF Failed(holder) THEN holder
             ELSE IF InstanceHasMethod(holder.val, node.method_name_,
                                       Len(arg_values.values), holder.m)
             THEN Call(holder.val, node.method_name_, arg_values.values, holder.m)
             ELSE Raise("Wrong method call", holder.m))

MethodCall_Execute(node, m) ==
    With(ExecuteArgs(node.args_, <<>>, m),
         LAMBDA arg_values : IF arg_values.m.error # "" THEN Result(NoneHolder, arg_values.m)
                             ELSE CallReceiver(node, arg_values))

\* Stringify::Execute from std::ostringstream os on.  res is a plain pointer:
\* when it is what Call returned, the holder is gone before res is used, and
\* with it an object that the holder alone owned.
StringOf(res, called) ==
    IF Failed(res) THEN res
    ELSE IF called /\ res.sole THEN Undefined(res.m)
    ELSE IF NotEmpty(res.val)
    THEN With(PrintObject(res.val, res.m),
              LAMBDA printed : IF printed.m.error # "" THEN Result(NoneHolder, printed.m)
                               ELSE Own(String(printed.text), printed.m))
    ELSE Own(String("None"), res.m)

Stringify_Execute(node, m) ==
    With(Execute(node.arg_, m),
         LAMBDA holder :
             IF Failed(holder) THEN holder
             ELSE IF InstanceHasMethod(holder.val, "__str__", 0, holder.m)
             THEN With(Call(holder.val, "__str__", <<>>, holder.m),
                       LAMBDA res : StringOf(res, TRUE))
             ELSE StringOf(holder, FALSE))

\* BinaryOperation: lhs_ is executed, then rhs_, then the operation applied
Binary(node, m, Apply(_, _, _)) ==
    With(Execute(node.lhs_, m),
         LAMBDA left :
             IF Failed(left) THEN left
             ELSE With(Execute(node.rhs_, left.m),
                       LAMBDA right : IF Failed(right) THEN right
                                      ELSE Apply(left.val, right.val, right.m)))

\* int res = ...; a signed operation whose result leaves int is not defined
Add_Apply(left, right, m) ==
    IF left.t = "Number" /\ right.t = "Number"
    THEN IF AddOverflows(left.n, right.n) THEN Undefined(m)
         ELSE Own(Number(left.n + right.n), m)
    ELSE IF left.t = "String" /\ right.t = "String" THEN Own(String(left.s \o right.s), m)
    ELSE IF InstanceHasMethod(left, "__add__", 1, m) THEN Call(left, "__add__", <<right>>, m)
    ELSE Raise("ADD is unavailable", m)

Sub_Apply(left, right, m) ==
    IF left.t = "Number" /\ right.t = "Number"
    THEN IF SubOverflows(left.n, right.n) THEN Undefined(m)
         ELSE Own(Number(left.n - right.n), m)
    ELSE Raise("SUB is unavailable", m)

Mult_Apply(left, right, m) ==
    IF left.t = "Number" /\ right.t = "Number"
    THEN IF MultOverflows(left.n, right.n) THEN Undefined(m)
         ELSE Own(Number(left.n * right.n), m)
    ELSE Raise("MULT is unavailable", m)

Div_Apply(left, right, m) ==
    IF left.t = "Number" /\ right.t = "Number"
    THEN IF right.n = 0 THEN Raise("Denominator is 0", m)
         ELSE IF DivOverflows(left.n, right.n) THEN Undefined(m)
         ELSE Own(Number(TruncDiv(left.n, right.n)), m)
    ELSE Raise("MULT is unavailable", m)

Add_Execute(node, m) == Binary(node, m, Add_Apply)
Sub_Execute(node, m) == Binary(node, m, Sub_Apply)
Mult_Execute(node, m) == Binary(node, m, Mult_Apply)
Div_Execute(node, m) == Binary(node, m, Div_Apply)

\* The condition as it would be if any child that yields a value stopped
\* the Compound.
StopsOnAnyValue(command, holder) == command.kind = "Return" \/ NotEmpty(holder)

\* The condition under which Compound::Execute returns the holder of a child.
StopsCompound(command, holder) ==
    \/ command.kind = "Return"
    \/ command.kind = "IfElse" /\ NotEmpty(holder)
    \/ command.kind = "Compound" /\ NotEmpty(holder)

RECURSIVE CompoundLoop(_, _)
CompoundLoop(commands, m) ==
    IF commands = <<>> THEN Result(NoneHolder, m)
    ELSE With(Execute(Head(commands), m),
              LAMBDA holder :
                  IF Failed(holder) \/ StopsCompound(Head(commands), holder.val) THEN holder
                  ELSE CompoundLoop(Tail(commands), holder.m))

Compound_Execute(node, m) == CompoundLoop(node.commands_, m)

\* Return::Execute.  The machine notes that the frame has executed a Return
\* node, and the value of the first one.
Return_Execute(node, m) ==
    With(Execute(node.statement_, m),
         LAMBDA r : IF Failed(r) THEN r
                    ELSE [r EXCEPT !.m = [r.m EXCEPT !.returned = TRUE,
                                                    !.retval = IF r.m.returned THEN @
                                                               ELSE r.val]])

\* ClassDefinition::Execute.  class_ is moved from: a second execution of the
\* node calls GetName through a null pointer.  A program holds one node a class.
ClassDefinition_Execute(node, m) ==
    IF node.class_ \in m.moved THEN Undefined(m)
    ELSE Result(NoneHolder,
                [m EXCEPT !.closure = Bind(@, node.class_, ClassObject(node.class_)),
                          !.moved = @ \cup {node.class_}])

\* The instances that holders own, directly or through the fields of the
\* instances they own.
Instances(holders) == {holder.id : holder \in {h \in holders : h.t = "ClassInstance"}}
RECURSIVE Reach(_, _)
Reach(ids, heap) ==
    LET more == ids \cup UNION {Instances(Range(heap[id].fields)) : id \in ids}
    IN  IF more = ids THEN ids ELSE Reach(more, heap)

\* The instance that ins_ptr points to is still there when value_ has been
\* executed: the value it yielded, a name of the closure (self is there as
\* long as its method runs), or a closure or an argument of a caller leads
\* to it.  An instance that nothing leads to has been deleted with its last
\* holder.
Alive(ins, r) ==
    LET holders == {r.val} \cup Range(r.m.closure)
                       \cup UNION {Range(frame.closure) \cup Range(frame.args) :
                                      frame \in Range(r.m.frames)}
    IN  ins.id \in Reach(Instances(holders), r.m.heap)

\* ins_ptr->Fields()[field_name_] = value_->Execute(closure, context).  ins_ptr
\* is a plain pointer taken before value_ is executed: when the instance has
\* been deleted meanwhile, the behaviour is undefined.
AssignField(node, obj) ==
    With(Execute(node.value_, obj.m),
         LAMBDA r : IF Failed(r) THEN r
                    ELSE IF ~Alive(obj.val, r) THEN Undefined(r.m)
                    ELSE Result(r.val,
                                [r.m EXCEPT !.heap[obj.val.id].fields =
                                                Bind(@, node.field_name_, r.val)]))

\* FieldAssignment::Execute as it would be if value_ were executed before
\* the object is tested.
FieldAssignmentValueFirst(node, m) ==
    With(Execute(node.value_, m),
         LAMBDA r : IF Failed(r) THEN r
                    ELSE With(Execute(node.obj_, r.m),
                              LAMBDA obj : IF Failed(obj) THEN obj
                                           ELSE IF obj.val.t # "ClassInstance"
                                           THEN Raise("Object is not a class instance", obj.m)
                                           ELSE Result(r.val,
                                                       [obj.m EXCEPT !.heap[obj.val.id].fields =
                                                           Bind(@, node.field_name_, r.val)])))

FieldAssignment_Execute(node, m) ==
    With(Execute(node.obj_, m),
         LAMBDA obj : IF Failed(obj) THEN obj
                      ELSE IF obj.val.t # "ClassInstance"
                      THEN Raise("Object is not a class instance", obj.m)
                      ELSE AssignField(node, obj))

IfElse_Execute(node, m) ==
    With(Execute(node.condition_, m),
         LAMBDA condition :
             IF Failed(condition) THEN condition
             ELSE IF IsTrue(condition.val) THEN Execute(node.if_body_, condition.m)
             ELSE IF node.else_body_ # Nullptr THEN Execute(node.else_body_, condition.m)
             ELSE Result(NoneHolder, condition.m))

Or_Apply(left, right, m) ==
    IF IsTrue(left) THEN Own(Bool(TRUE), m)
    ELSE IF IsTrue(right) THEN Own(Bool(TRUE), m)
    ELSE Own(Bool(FALSE), m)

And_Apply(left, right, m) ==
    IF ~IsTrue(left) THEN Own(Bool(FALSE), m)
    ELSE IF ~IsTrue(right) THEN Own(Bool(FALSE), m)
    ELSE Own(Bool(TRUE), m)

Or_Execute(node, m) == Binary(node, m, Or_Apply)
And_Execute(node, m) == Binary(node, m, And_Apply)

Not_Execute(node, m) ==
    With(Execute(node.arg_, m),
         LAMBDA arg : IF Failed(arg) THEN arg
                      ELSE IF IsTrue(arg.val) THEN Own(Bool(FALSE), arg.m)
                      ELSE Own(Bool(TRUE), arg.m))

\* What a comparison yields: the bool, and the machine after the call of
\* __eq__ or __lt__ it may make.
Answer(ans, m) == [ans |-> ans, m |-> m]
Negated(answer) == Answer(~answer.ans, answer.m)

\* CheckFunc<T>: both holders hold a T
CheckFunc(T, lhs, rhs) == lhs.t = T /\ rhs.t = T

SimpleEqual(x, y) == x = y

SimpleLess(T, x, y) ==
    CASE T = "Bool" -> ~x /\ y
      [] T = "Number" -> x < y
      [] T = "String" -> StringLess(x, y)

\* res.TryAs<Bool>()->GetValue() on what __eq__ or __lt__ returned
AsBool(res) ==
    IF Failed(res) THEN Answer(FALSE, res.m)
    ELSE IF res.val.t # "Bool" THEN Answer(FALSE, Undefined(res.m).m)
    ELSE Answer(res.val.b, res.m)

Equal(lhs, rhs, m) ==
    IF ~NotEmpty(lhs) /\ ~NotEmpty(rhs) THEN Answer(TRUE, m)
    ELSE IF CheckFunc("Bool", lhs, rhs) THEN Answer(SimpleEqual(lhs.b, rhs.b), m)
    ELSE IF CheckFunc("Number", lhs, rhs) THEN Answer(SimpleEqual(lhs.n, rhs.n), m)
    ELSE IF CheckFunc("String", lhs, rhs) THEN Answer(SimpleEqual(lhs.s, rhs.s), m)
    ELSE IF InstanceHasMethod(lhs, "__eq__", 1, m)
    THEN With(Call(lhs, "__eq__", <<rhs>>, m), LAMBDA res : AsBool(res))
    ELSE Answer(FALSE, Raise("Objects cannot be compared", m).m)

Less(lhs, rhs, m) ==
    IF CheckFunc("Bool", lhs, rhs) THEN Answer(SimpleLess("Bool", lhs.b, rhs.b), m)
    ELSE IF CheckFunc("Number", lhs, rhs) THEN Answer(SimpleLess("Number", lhs.n, rhs.n), m)
    ELSE IF CheckFunc("String", lhs, rhs) THEN Answer(SimpleLess("String", lhs.s, rhs.s), m)
    ELSE IF InstanceHasMethod(lhs, "__lt__", 1, m)
    THEN With(Call(lhs, "__lt__", <<rhs>>, m), LAMBDA res : AsBool(res))
    ELSE Answer(FALSE, Raise("Objects cannot be compared", m).m)

NotEqualAsEqual(lhs, rhs, m) == Equal(lhs, rhs, m)

NotEqual(lhs, rhs, m) == With(Equal(lhs, rhs, m), LAMBDA equal : Negated(equal))

\* Less(...) || Equal(...): Equal is called only when Less returned false
LessOrEqual(lhs, rhs, m) ==
    With(Less(lhs, rhs, m),
         LAMBDA less : IF less.m.error # "" \/ less.ans THEN less
                       ELSE Equal(lhs, rhs, less.m))

\* Greater as it would be without the call of Equal.
GreaterWithoutEqual(lhs, rhs, m) == With(Less(lhs, rhs, m), LAMBDA less : Negated(less))

Greater(lhs, rhs, m) == With(LessOrEqual(lhs, rhs, m), LAMBDA either : Negated(either))

GreaterOrEqual(lhs, rhs, m) == With(Less(lhs, rhs, m), LAMBDA less : Negated(less))

\* The Comparator a Comparison node holds, by its name.
Comparators == {"Equal", "NotEqual", "Less", "Greater", "LessOrEqual", "GreaterOrEqual"}

Comparator(cmp, lhs, rhs, m) ==
    CASE cmp = "Equal" -> Equal(lhs, rhs, m)
      [] cmp = "NotEqual" -> NotEqual(lhs, rhs, m)
      [] cmp = "Less" -> Less(lhs, rhs, m)
      [] cmp = "Greater" -> Greater(lhs, rhs, m)
      [] cmp = "LessOrEqual" -> LessOrEqual(lhs, rhs, m)
      [] cmp = "GreaterOrEqual" -> GreaterOrEqual(lhs, rhs, m)

\* ObjectHolder::Own(runtime::Bool(cmp_(left, right, context)))
Compare_Apply(cmp, left, right, m) ==
    With(Comparator(cmp, left, right, m),
         LAMBDA answer : IF answer.m.error # "" THEN Result(NoneHolder, answer.m)
                         ELSE Own(Bool(answer.ans), answer.m))

Comparison_Execute(node, m) ==
    With(Execute(node.lhs_, m),
         LAMBDA left :
             IF Failed(left) THEN left
             ELSE With(Execute(node.rhs_, left.m),
                       LAMBDA right : IF Failed(right) THEN right
                                      ELSE Compare_Apply(node.cmp_, left.val, right.val,
                                                         right.m)))

\* NewInstance::Execute when the class has __init__ of as many parameters
Initialise(node, new_obj, created) ==
    With(ExecuteArgs(node.args_, <<>>, created),
         LAMBDA args :
             IF args.m.error # "" THEN Result(NoneHolder, args.m)
             ELSE With(Call(new_obj, "__init__", args.values, args.m),
                       LAMBDA init : IF Failed(init) THEN init ELSE Own(new_obj, init.m)))

\* NewInstance::Execute as it would be if the number of parameters of
\* __init__ were not compared with the number of arguments.
NewInstanceOfAnyArity(node, m) ==
    LET new_obj == Instance(Len(m.heap) + 1)
        created == [m EXCEPT !.heap = Append(@, [class |-> node.class_,
                                                fields |-> EmptyClosure])]
        init_ptr == GetMethod(ClassNamed(node.class_), "__init__")
    IN  IF init_ptr.name # ""
        THEN Initialise(node, new_obj, created)
        ELSE Own(new_obj, created)

NewInstance_Execute(node, m) ==
    LET new_obj == Instance(Len(m.heap) + 1)
        created == [m EXCEPT !.heap = Append(@, [class |-> node.class_,
                                                fields |-> EmptyClosure])]
        init_ptr == GetMethod(ClassNamed(node.class_), "__init__")
    IN  IF init_ptr.name # "" /\ Len(init_ptr.formal_params) = Len(node.args_)
        THEN Initialise(node, new_obj, created)
        ELSE Own(new_obj, created)

MethodBody_Execute(node, m) == Execute(node.body_, m)

\* The virtual call ptr->Execute(closure, context).  A frame that has executed
\* a Return node notes that a node is executed after it.
Dispatch(node, m) ==
    CASE node.kind = "NumericConst" -> NumericConst_Execute(node, m)
      [] node.kind = "StringConst" -> StringConst_Execute(node, m)
      [] node.kind = "BoolConst" -> BoolConst_Execute(node, m)
      [] node.kind = "None" -> None_Execute(node, m)
      [] node.kind = "VariableValue" -> VariableValue_Execute(node, m)
      [] node.kind = "Assignment" -> Assignment_Execute(node, m)
      [] node.kind = "FieldAssignment" -> FieldAssignment_Execute(node, m)
      [] node.kind = "Print" -> Print_Execute(node, m)
      [] node.kind = "MethodCall" -> MethodCall_Execute(node, m)
      [] node.kind = "NewInstance" -> NewInstance_Execute(node, m)
      [] node.kind = "Stringify" -> Stringify_Execute(node, m)
      [] node.kind = "Add" -> Add_Execute(node, m)
      [] node.kind = "Sub" -> Sub_Execute(node, m)
      [] node.kind = "Mult" -> Mult_Execute(node, m)
      [] node.kind = "Div" -> Div_Execute(node, m)
      [] node.kind = "Or" -> Or_Execute(node, m)
      [] node.kind = "And" -> And_Execute(node, m)
      [] node.kind = "Not" -> Not_Execute(node, m)
      [] node.kind = "Comparison" -> Comparison_Execute(node, m)
      [] node.kind = "Compound" -> Compound_Execute(node, m)
      [] node.kind = "MethodBody" -> MethodBody_Execute(node, m)
      [] node.kind = "Return" -> Return_Execute(node, m)
      [] node.kind = "ClassDefinition" -> ClassDefinition_Execute(node, m)
      [] node.kind = "IfElse" -> IfElse_Execute(node, m)
      [] node.kind = "nullptr" -> Undefined(m)

Execute(node, m) == Dispatch(node, IF m.returned THEN [m EXCEPT !.late = TRUE] ELSE m)

(***************************************************************************)
(* The lexer as a state machine: construction, then calls of NextToken.    *)
(***************************************************************************)
NoLexer == NewLexer(<<>>)

\* Number of Eof tokens at the end of ts.
RECURSIVE TrailingEofs(_)
TrailingEofs(ts) ==
    IF ts = <<>> \/ ts[Len(ts)] # Eof THEN 0
    ELSE 1 + TrailingEofs(SubSeq(ts, 1, Len(ts) - 1))

Phase(lx) == IF lx.error # "" THEN "error" ELSE "ready"
Produced(ts, lx) == IF lx.error # "" THEN ts ELSE Append(ts, lx.current_token_)

\* parse::Lexer lexer(input)
Construct ==
    /\ phase = "new"
    /\ \E overwrite \in BOOLEAN :
          LET lx == LexerCtor(source, overwrite)
          IN  /\ lexer' = lx
              /\ phase' = Phase(lx)
              /\ tokens' = Produced(tokens, lx)
    /\ UNCHANGED <<source, lex2Vars, evalVars, classVars>>

\* lexer.NextToken()
CallNextToken ==
    /\ phase = "ready"
    /\ TrailingEofs(tokens) <= MaxEofCalls
    /\ \E overwrite \in BOOLEAN :
          LET lx == NextToken(lexer, overwrite)
          IN  /\ lexer' = lx
              /\ phase' = Phase(lx)
              /\ tokens' = Produced(tokens, lx)
    /\ UNCHANGED <<source, lex2Vars, evalVars, classVars>>

Init ==
    /\ source \in Inputs(MaxLines)
    /\ lexer = NewLexer(source)
    /\ tokens = <<>>
    /\ phase = "new"
    /\ source2 = <<>>
    /\ lexer2 = NoLexer
    /\ tokens2 = <<>>
    /\ phase2 = "none"
    /\ program = <<>>
    /\ machine = NewMachine
    /\ executed = NoLast
    /\ classes = <<>>
    /\ looked = NoLook

Next == Construct \/ CallNextToken

Spec == Init /\ [][Next]_vars

(***************************************************************************)
(* The lexer on inputs whose lines start with an odd or an even number of  *)
(* spaces, before a token, before a comment, or before nothing.            *)
(***************************************************************************)
MaxSpacedLines == 2
SpacedShapes ==
    { <<>>,
      <<"a">>,
      <<" ">>,
      <<" ", "a">>,
      <<" ", "#", "a">>,
      <<" ", " ">>,
      <<" ", " ", "a">>,
      <<" ", " ", "#">>,
      <<" ", " ", " ">>,
      <<" ", " ", " ", "a">>,
      <<"a", " ">> }

SpacedInputs(n) ==
    {Join(ls) \o tail : ls \in UNION {[1..k -> SpacedShapes] : k \in 0..n},
                         tail \in {<<>>, <<"\n">>}}

InitSpaced ==
    /\ source \in SpacedInputs(MaxSpacedLines)
    /\ lexer = NewLexer(source)
    /\ tokens = <<>>
    /\ phase = "new"
    /\ source2 = <<>>
    /\ lexer2 = NoLexer
    /\ tokens2 = <<>>
    /\ phase2 = "none"
    /\ program = <<>>
    /\ machine = NewMachine
    /\ executed = NoLast
    /\ classes = <<>>
    /\ looked = NoLook

SpecSpaced == InitSpaced /\ [][Next]_vars

(***************************************************************************)
(* The lexer on inputs with characters that start no lexeme: inside a      *)
(* string, inside a comment, and between the tokens of a line.             *)
(***************************************************************************)
MaxOtherLines == 2
OtherShapes ==
    { <<>>,
      <<"a">>,
      <<" ", " ", "a">>,
      <<"'", "@", "'">>,
      <<"#", "@">>,
      <<"a", " ", "#", "%">>,
      <<"@">>,
      <<"a", "@">>,
      <<"a", " ", "%", " ", "a">>,
      <<"[">>,
      <<"a", "\t", "a">>,
      <<"\r">>,
      <<" ", " ", "@">> }

OtherInputs(n) ==
    {Join(ls) \o tail : ls \in UNION {[1..k -> OtherShapes] : k \in 0..n},
                         tail \in {<<>>, <<"\n">>}}

InitOther ==
    /\ source \in OtherInputs(MaxOtherLines)
    /\ lexer = NewLexer(source)
    /\ tokens = <<>>
    /\ phase = "new"
    /\ source2 = <<>>
    /\ lexer2 = NoLexer
    /\ tokens2 = <<>>
    /\ phase2 = "none"
    /\ program = <<>>
    /\ machine = NewMachine
    /\ executed = NoLast
    /\ classes = <<>>
    /\ looked = NoLook

SpecOther == InitOther /\ [][Next]_vars

(***************************************************************************)
(* The lexer run twice in step: on source, and on source with one line     *)
(* that consists solely of a comment inserted at the start of a line.      *)
(***************************************************************************)
CommentTexts == { <<"#">>, <<"#", "a", " ">> }

\* The positions at which a line of chars starts: 0, and after each "\n".
LineStarts(chars) == {0} \cup {i \in 1..Len(chars) : chars[i] = "\n"}

\* chars with the comment c put in as a line of its own after position at; the
\* comment ends with "\n", except that as the last line it may also end the input.
WithComment(chars, at, c, terminated) ==
    SubSeq(chars, 1, at) \o c \o (IF terminated THEN <<"\n">> ELSE <<>>)
        \o SubSeq(chars, at + 1, Len(chars))

ConstructBoth ==
    /\ phase = "new"
    /\ \E overwrite \in BOOLEAN :
          LET lx == LexerCtor(source, overwrite)
              lx2 == LexerCtor(source2, overwrite)
          IN  /\ lexer' = lx
              /\ phase' = Phase(lx)
              /\ tokens' = Produced(tokens, lx)
              /\ lexer2' = lx2
              /\ phase2' = Phase(lx2)
              /\ tokens2' = Produced(tokens2, lx2)
    /\ UNCHANGED <<source, source2, evalVars, classVars>>

\* A lexer that has raised LexerError is not called again.
NextTokenIfReady(lx, overwrite) ==
    IF lx.error # "" THEN lx ELSE NextToken(lx, overwrite)

CallNextTokenBoth ==
    /\ \/ phase = "ready" /\ TrailingEofs(tokens) = 0
       \/ phase2 = "ready" /\ TrailingEofs(tokens2) = 0
    /\ \E overwrite \in BOOLEAN :
          LET lx == NextTokenIfReady(lexer, overwrite)
              lx2 == NextTokenIfReady(lexer2, overwrite)
          IN  /\ lexer' = lx
              /\ phase' = Phase(lx)
              /\ tokens' = Produced(tokens, lx)
              /\ lexer2' = lx2
              /\ phase2' = Phase(lx2)
              /\ tokens2' = Produced(tokens2, lx2)
    /\ UNCHANGED <<source, source2, evalVars, classVars>>

InitComment ==
    /\ source \in Inputs(MaxCommentLines)
    /\ \E at \in LineStarts(source), c \in CommentTexts, terminated \in BOOLEAN :
          /\ terminated \/ at = Len(source)
          /\ source2 = WithComment(source, at, c, terminated)
    /\ lexer = NewLexer(source)
    /\ tokens = <<>>
    /\ phase = "new"
    /\ lexer2 = NewLexer(source2)
    /\ tokens2 = <<>>
    /\ phase2 = "new"
    /\ program = <<>>
    /\ machine = NewMachine
    /\ executed = NoLast
    /\ classes = <<>>
    /\ looked = NoLook

NextComment == ConstructBoth \/ CallNextTokenBoth

SpecComment == InitComment /\ [][NextComment]_vars

(***************************************************************************)
(* The evaluator as a state machine: a program is a sequence of statements *)
(* executed one after another against one closure and one context.         *)
(***************************************************************************)
\* arguments of the method calls of the programs
MaxArgs == 2

Var(name) == VariableValue(<<name>>)
CallOf(name, method, args) == MethodCall(Var(name), method, args)

\* p = Probe()
NewProbe == Assignment("p", NewInstance("Probe", <<>>))

\* Operands of And and Or: the left ones yield every kind of value, the
\* right ones change the scope, the output or a field, or throw.
Lefts ==
    {BoolConst(TRUE), BoolConst(FALSE), NumericConst(0), StringConst("a"), None, Var("p"),
     CallOf("p", "yes", <<>>), CallOf("p", "no", <<>>)}
Rights ==
    {BoolConst(TRUE), Assignment("y", NumericConst(1)), Say("right"),
     CallOf("p", "set", <<NumericConst(1)>>), CallOf("p", "yes", <<>>),
     Div(NumericConst(1), NumericConst(0))}
LogicPrograms ==
    {<<NewProbe, And(l, r)>> : l \in Lefts, r \in Rights}
    \cup {<<NewProbe, Or(l, r)>> : l \in Lefts, r \in Rights}

\* Method calls: a receiver and arguments that write, assign or throw.
Receivers == {Var("p"), Var("nope"), None, NumericConst(1), CallOf("p", "me", <<>>)}
Arguments ==
    {NumericConst(1), Assignment("a", NumericConst(1)), CallOf("p", "yes", <<>>),
     Div(NumericConst(1), NumericConst(0))}
ArgLists(n) == UNION {[1..k -> Arguments] : k \in 0..n}
MethodOfArity(n) == IF n = 0 THEN "say" ELSE IF n = 1 THEN "take" ELSE "take2"
CallPrograms ==
    {<<NewProbe, MethodCall(receiver, MethodOfArity(Len(args)), args)>> :
        receiver \in Receivers, args \in ArgLists(MaxArgs)}

\* Calls of the methods of Returning and Falling with every kind of value.
Values ==
    {None, NumericConst(0), NumericConst(5), StringConst(""), StringConst("a"),
     BoolConst(FALSE), Var("o")}
BodyProgramsOf(cls) ==
    {<<Assignment("o", NewInstance(cls.name, <<>>)), CallOf("o", method, <<v>>)>> :
        method \in DOMAIN cls.vtbl, v \in Values}
BodyPrograms == BodyProgramsOf(Returning) \cup BodyProgramsOf(Falling)

\* Comparisons of a value with itself.
ComparedClasses ==
    {Probe, EqTrue, EqFalse, EqNone, EqNumber, EqNoParam, EqArg, LtTrue, LtFalse, LtEq,
     LtNone}
Compared ==
    {None, NumericConst(0), NumericConst(1), StringConst(""), StringConst("a"),
     BoolConst(TRUE), BoolConst(FALSE)}
    \cup {NewInstance(cls.name, <<>>) : cls \in ComparedClasses}
ComparePrograms ==
    {<<Assignment("x", v), Comparison(cmp, Var("x"), Var("x"))>> :
        v \in Compared, cmp \in Comparators}
    \cup {<<ClassDefinition("Probe"), Comparison(cmp, Var("Probe"), Var("Probe"))>> :
            cmp \in Comparators}

\* Programs that bind x and y to two values of any kinds, a Class object
\* among them, and compare them.
PairPrograms ==
    {<<ClassDefinition("Probe"), Assignment("x", v), Assignment("y", w),
       Comparison(cmp, Var("x"), Var("y"))>> :
        v \in Compared \cup {Var("Probe")}, w \in Compared \cup {Var("Probe")},
        cmp \in Comparators}

\* Programs that create two instances, of classes with and without
\* __init__, own, inherited or hidden, with arguments that write or assign.
InitArgs ==
    {<<>>, <<NumericConst(1)>>, <<Assignment("t", NumericConst(1))>>,
     <<StringConst("a"), Stringify(Say("arg"))>>}
InitClasses == {"Probe", "Base", "Child", "Hidden"}
InstancePrograms ==
    {<<Assignment("a", NewInstance(c1, a1)), NewInstance(c2, a2)>> :
        c1 \in InitClasses, a1 \in InitArgs, c2 \in InitClasses, a2 \in InitArgs}

\* Programs that print up to MaxPrinted arguments: values of every kind,
\* instances with and without __str__, assignments, and a call that writes.
MaxPrinted == 2
Printed ==
    {None, NumericConst(7), StringConst(""), StringConst("a"), BoolConst(FALSE),
     Var("Probe"), Var("p"), Var("s"), Var("l"), Var("n"), Var("w"), CallOf("p", "yes", <<>>),
     Assignment("t", NumericConst(1)), Assignment("t", BoolConst(TRUE))}
RECURSIVE PrintedLists(_)
PrintedLists(n) ==
    IF n = 0 THEN {<<>>}
    ELSE PrintedLists(n - 1)
         \cup {Append(args, arg) : args \in {list \in PrintedLists(n - 1) : Len(list) = n - 1},
                                    arg \in Printed}
PrintPrelude ==
    <<ClassDefinition("Probe"),
      Compound(<<NewProbe,
                 Assignment("s", NewInstance("Named", <<>>)),
                 Assignment("l", NewInstance("Loud", <<>>)),
                 Assignment("n", NewInstance("StrNum", <<>>)),
                 Assignment("w", NewInstance("StrNew", <<>>)),
                 Assignment("o", NewInstance("StrNone", <<>>))>>)>>
PrintPrograms == {PrintPrelude \o <<PrintNode(args)>> : args \in PrintedLists(MaxPrinted)}

\* Programs that divide: Numbers of both signs, 0, -1 and the least int,
\* values that are not Numbers, and operands that assign or write.
Divided ==
    {NumericConst(-7), NumericConst(7), NumericConst(2), NumericConst(-2), NumericConst(0),
     NumericConst(-1), NumericConst(INT_MAX), Var("min"), None, StringConst("a"),
     BoolConst(TRUE), Assignment("t", NumericConst(6)), CallOf("p", "say", <<>>),
     CallOf("p", "yes", <<>>)}
DivPrograms ==
    {<<Compound(<<NewProbe,
                  Assignment("min", Sub(NumericConst(-INT_MAX), NumericConst(1)))>>),
       Div(lhs, rhs)>> : lhs \in Divided, rhs \in Divided}

\* Programs that branch on a condition of every kind of value, or one that
\* writes or assigns, into branches that write, assign or yield a value,
\* with and without an else branch.
Conditions ==
    {BoolConst(TRUE), BoolConst(FALSE), NumericConst(0), NumericConst(1), NumericConst(-1),
     StringConst(""), StringConst("a"), None, Var("Probe"), Var("p"),
     CallOf("p", "yes", <<>>), CallOf("p", "no", <<>>), CallOf("p", "me", <<>>),
     Assignment("c", NumericConst(2)), Var("nope")}
ThenBodies == {Say("then"), NumericConst(1), Assignment("b", StringConst("a"))}
ElseBodies == {Nullptr, Say("else"), NumericConst(2)}
BranchPrograms ==
    {<<ClassDefinition("Probe"), NewProbe, IfElse(condition, if_body, else_body)>> :
        condition \in Conditions, if_body \in ThenBodies, else_body \in ElseBodies}

\* Programs that turn into a string a value of every kind, a Class object,
\* and instances without __str__ and with each kind of __str__.
Stringified ==
    {None, NumericConst(7), StringConst(""), StringConst("a"), BoolConst(TRUE), Var("Probe"),
     Var("p"), Var("s"), Var("l"), Var("n"), Var("w"), Var("o"), CallOf("p", "yes", <<>>),
     CallOf("p", "say", <<>>), Var("nope")}
StringifyPrograms == {PrintPrelude \o <<Stringify(arg)>> : arg \in Stringified}

\* Programs of one Compound of up to MaxChildren children: Return, IfElse
\* and Compound children that yield a value or none, and children of other
\* kinds that yield a value, assign or write.
MaxChildren == 2
Children ==
    {Return(None), Return(NumericConst(1)),
     IfElse(BoolConst(TRUE), NumericConst(2), Nullptr),
     IfElse(BoolConst(TRUE), Say("if"), Nullptr),
     IfElse(BoolConst(FALSE), NumericConst(2), Nullptr),
     Compound(<<Return(NumericConst(3))>>), Compound(<<Return(None)>>), Compound(<<>>),
     NumericConst(4), Assignment("x", NumericConst(5)), Say("say"),
     MethodBody(NumericConst(6))}
RECURSIVE ChildLists(_)
ChildLists(n) ==
    IF n = 0 THEN {<<>>}
    ELSE ChildLists(n - 1)
         \cup {Append(list, child) : list \in {l \in ChildLists(n - 1) : Len(l) = n - 1},
                                      child \in Children}
CompoundPrograms == {<<Compound(commands)>> : commands \in ChildLists(MaxChildren)}

\* Programs that bind g and p, then call a method of Scoped: one that reads
\* g, one that assigns g, and ones that call again after assigning g.
MaxRec == 2
ScopeCalls ==
    {CallOf("s", "peek", <<>>)}
    \cup {CallOf("s", method, <<v>>) :
            method \in {"local", "nest"},
            v \in {NumericConst(1), StringConst("a"), Var("g"), Var("p")}}
    \cup {CallOf("s", "rec", <<NumericConst(n)>>) : n \in 0..MaxRec}
    \cup {CallOf("s", "local", <<CallOf("s", "nest", <<Var("g")>>)>>)}
ScopePrograms ==
    {<<Assignment("g", NumericConst(9)), Assignment("p", StringConst("b")),
       Assignment("s", NewInstance("Scoped", <<>>)), call>> : call \in ScopeCalls}

\* Programs that go through a target with a dot: a dotted name, the receiver of
\* a method call, the object of a field assignment.  The targets are None, a
\* Number, a String, a Bool, a class, an instance and a name that is not
\* bound, in the scope and in the fields of an instance; the arguments and the
\* assigned values yield a value, assign, write, or change a field.
TargetPrelude ==
    Compound(<<NewProbe,
               Assignment("n", None),
               Assignment("k", NumericConst(1)),
               Assignment("s", StringConst("a")),
               Assignment("b", BoolConst(TRUE)),
               Assignment("c", Var("Probe")),
               FieldAssignment(Var("p"), "f", NumericConst(1)),
               FieldAssignment(Var("p"), "g", None),
               FieldAssignment(Var("p"), "q", Var("p"))>>)
TargetNames == {"n", "k", "s", "b", "c", "p", "nope"}
TargetChains ==
    {<<name>> : name \in TargetNames} \cup {<<name, "f">> : name \in TargetNames}
        \cup {<<"p", field, "f">> : field \in {"f", "g", "q", "nope"}}
        \cup {<<"p", "nope">>, <<"p", "q", "g", "f">>, <<"p", "q", "q", "f">>}
TargetValues ==
    {NumericConst(2), Assignment("t", NumericConst(2)), Say("value"),
     CallOf("p", "set", <<NumericConst(2)>>)}
Targeted ==
    {VariableValue(chain) : chain \in TargetChains}
        \cup {MethodCall(Var(name), "take", <<value>>) :
                  name \in TargetNames, value \in TargetValues}
        \cup {MethodCall(receiver, "say", <<>>) :
                  receiver \in {None, NumericConst(1), Var("n"), Var("p"),
                                VariableValue(<<"p", "g">>), VariableValue(<<"p", "q">>)}}
        \cup {FieldAssignment(VariableValue(chain), "f", value) :
                  chain \in TargetChains, value \in TargetValues}
TargetPrograms ==
    {<<ClassDefinition("Probe"), TargetPrelude, node>> : node \in Targeted}

\* Programs that execute class definitions: two nodes one after the other, the
\* same node twice, with a statement between that uses or rebinds the name,
\* and a node in the body of a method that is called twice, each call with a
\* scope of its own.
DefinedNames == {"Probe", "Base", "Child"}
Between ==
    {NewProbe, Assignment("Probe", NumericConst(1)), Var("Probe"),
     Assignment("c", Var("Probe"))}
NewDefiner == Assignment("d", NewInstance("Definer", <<>>))
DefinitionPrograms ==
    {<<ClassDefinition(a), ClassDefinition(b)>> : a \in DefinedNames, b \in DefinedNames}
        \cup {<<ClassDefinition("Probe"), between, ClassDefinition("Probe")>> :
                  between \in Between}
        \cup {<<NewDefiner, CallOf("d", "define", <<>>), last>> :
                  last \in {CallOf("d", "define", <<>>), ClassDefinition("Inner"),
                            ClassDefinition("Probe")}}
        \cup {<<NewDefiner, ClassDefinition("Inner"), CallOf("d", "define", <<>>)>>}

\* Programs with two names for one instance: p and b hold the same instance,
\* o another one, and the field q of the first a third.  Two statements
\* follow that write a field through a name, rebind a name, or read a field;
\* some of the values written rebind the name or clear the field that the
\* object of the assignment was reached by.
AliasPrelude ==
    Compound(<<NewProbe,
               Assignment("o", NewInstance("Probe", <<>>)),
               FieldAssignment(Var("p"), "f", NumericConst(1)),
               FieldAssignment(Var("p"), "q", NewInstance("Probe", <<>>)),
               Assignment("b", Var("p"))>>)
AliasSteps ==
    {FieldAssignment(Var(name), "f", value) :
         name \in {"p", "b", "o"}, value \in {NumericConst(7), Var("o"), Var("p")}}
        \cup {FieldAssignment(VariableValue(<<"b", "q">>), "f", NumericConst(7)),
              FieldAssignment(Var("b"), "f", Assignment("b", NumericConst(1))),
              FieldAssignment(Var("o"), "f", Assignment("o", NumericConst(1))),
              FieldAssignment(VariableValue(<<"p", "q">>), "f",
                              FieldAssignment(Var("b"), "q", None))}
        \cup {Assignment("b", value) :
                  value \in {NumericConst(1), None, Var("o"), NewInstance("Probe", <<>>)}}
        \cup {Assignment("c", Var("b")), VariableValue(<<"p", "f">>),
              VariableValue(<<"b", "f">>)}
AliasPrograms == {<<AliasPrelude, first, second>> : first \in AliasSteps, second \in AliasSteps}

Programs == LogicPrograms \cup CallPrograms \cup BodyPrograms \cup ComparePrograms
            \cup ScopePrograms \cup PairPrograms
            \cup InstancePrograms \cup PrintPrograms
            \cup DivPrograms \cup BranchPrograms
            \cup StringifyPrograms \cup CompoundPrograms
            \cup TargetPrograms \cup DefinitionPrograms
            \cup AliasPrograms

\* The next statement of the program is executed; an exception ends the program.
ExecuteStatement ==
    /\ program # <<>>
    /\ machine.error = ""
    /\ LET r == Execute(Head(program), machine)
       IN  /\ machine' = r.m
           /\ executed' = [node |-> Head(program), pre |-> machine, val |-> r.val]
    /\ program' = Tail(program)
    /\ UNCHANGED <<lexVars, lex2Vars, classVars>>

InitEval ==
    /\ program \in Programs
    /\ machine = NewMachine
    /\ executed = NoLast
    /\ classes = <<>>
    /\ looked = NoLook
    /\ source = <<>>
    /\ lexer = NoLexer
    /\ tokens = <<>>
    /\ phase = "none"
    /\ source2 = <<>>
    /\ lexer2 = NoLexer
    /\ tokens2 = <<>>
    /\ phase2 = "none"

NextEval == ExecuteStatement

SpecEval == InitEval /\ [][NextEval]_vars

(***************************************************************************)
(* Classes built one after another, each with a parent built before it or  *)
(* with none, and lookups of methods in them (Class::Class, GetMethod).    *)
(***************************************************************************)
\* classes built, and names of the methods they define
MaxClasses == 3
MethodNames == {"f", "g"}

\* The method name as the class number index defines it: its body yields index.
Defined(index, name) == Method(name, <<>>, MethodBody(Return(NumericConst(index))))

\* The built class number index, or NoClass for the null parent.
Built(index) == IF index = 0 THEN NoClass ELSE classes[index].cls

\* runtime::Class cls(name, methods, parent)
DefineClass ==
    /\ Len(classes) < MaxClasses
    /\ \E parent \in 0..Len(classes), own \in SUBSET MethodNames :
          LET index == Len(classes) + 1
              methods == SetToSeq({Defined(index, name) : name \in own})
          IN  classes' = Append(classes,
                                [cls |-> Class("K" \o ToString(index), methods, Built(parent)),
                                 parent |-> parent, own |-> own])
    /\ UNCHANGED <<looked, lexVars, lex2Vars, evalVars>>

\* cls.GetMethod(name)
LookUp ==
    /\ \E index \in DOMAIN classes, name \in MethodNames :
          looked' = [class |-> index, name |-> name,
                     method |-> GetMethod(classes[index].cls, name)]
    /\ UNCHANGED <<classes, lexVars, lex2Vars, evalVars>>

InitClass ==
    /\ program = <<>>
    /\ machine = NewMachine
    /\ executed = NoLast
    /\ classes = <<>>
    /\ looked = NoLook
    /\ source = <<>>
    /\ lexer = NoLexer
    /\ tokens = <<>>
    /\ phase = "none"
    /\ source2 = <<>>
    /\ lexer2 = NoLexer
    /\ tokens2 = <<>>
    /\ phase2 = "none"

NextClass == DefineClass \/ LookUp

SpecClass == InitClass /\ [][NextClass]_vars

(***************************************************************************)
(* Properties of the lexer.                                                *)
(***************************************************************************)
RealToken(tok) == tok.type \notin {"Newline", "Indent", "Dedent", "Eof"}

\* Number of Indent tokens minus number of Dedent tokens in ts.
RECURSIVE Balance(_)
Balance(ts) ==
    IF ts = <<>> THEN 0
    ELSE Balance(Tail(ts)) + (IF Head(ts) = Indent THEN 1
                              ELSE IF Head(ts) = Dedent THEN -1 ELSE 0)

\* Index of the first Eof of ts, 0 if there is none.
FirstEof(ts) ==
    IF \E i \in 1..Len(ts) : ts[i] = Eof
    THEN CHOOSE i \in 1..Len(ts) : ts[i] = Eof /\ \A j \in 1..(i - 1) : ts[j] # Eof
    ELSE 0

\* C3: in the tokens produced for an accepted input, Indent minus Dedent is
\* non-negative after every prefix and zero when the first Eof is produced.
C3_IndentDedentBalance ==
    /\ \A k \in 0..Len(tokens) : Balance(SubSeq(tokens, 1, k)) >= 0
    /\ FirstEof(tokens) > 0 => Balance(SubSeq(tokens, 1, FirstEof(tokens))) = 0

\* C7: no two adjacent tokens of the produced sequence are both Newline.
C7_NoAdjacentNewlines ==
    \A i \in 1..(Len(tokens) - 1) : ~(tokens[i] = Newline /\ tokens[i + 1] = Newline)

\* C7 witness: an input with a leading blank line, a run of blank lines after a
\* real token and a comment-only line has been lexed to Eof.
C7_Witness ==
    /\ FirstEof(tokens) > 0
    /\ \E i \in 1..Len(tokens) : tokens[i] = Newline
    /\ Len(source) >= 4
    /\ source[1] = "\n"
    /\ \E i \in 2..(Len(source) - 2) :
          source[i] = "a" /\ source[i + 1] = "\n" /\ source[i + 2] \in {"\n", "#"}

\* C8: once Eof has been produced, every later NextToken produces Eof, raises
\* nothing, and the current token stays Eof.
C8_EofSticky ==
    FirstEof(tokens) > 0 =>
        /\ \A j \in FirstEof(tokens)..Len(tokens) : tokens[j] = Eof
        /\ phase = "ready"
        /\ lexer.current_token_ = Eof

\* C8 witness: NextToken has been called twice after the first Eof of an input
\* that has an indented line.
C8_Witness ==
    /\ TrailingEofs(tokens) >= 3
    /\ \E i \in 1..Len(tokens) : tokens[i] = Indent
    /\ \E i \in 1..Len(tokens) : RealToken(tokens[i])

\* C9: when the first Eof is produced for an input with a real token, a Newline
\* lies between the last real token and that Eof and the token before the Eof is
\* Newline or Dedent; for an input with no real token the first token is Eof.
C9_FinalNewline ==
    LET e == FirstEof(tokens)
    IN  e > 0 =>
          IF \E i \in 1..e : RealToken(tokens[i])
          THEN LET last == CHOOSE i \in 1..e :
                              RealToken(tokens[i]) /\ \A j \in (i + 1)..e : ~RealToken(tokens[j])
               IN  /\ \E j \in (last + 1)..(e - 1) : tokens[j] = Newline
                   /\ tokens[e - 1] \in {Newline, Dedent}
          ELSE e = 1

\* C10: an input and the same input with one comment-only line inserted are
\* accepted or rejected together, and while neither has raised LexerError the
\* tokens produced for them are the same, call by call.
C10_CommentTransparency ==
    /\ (phase = "ready" /\ phase2 = "ready") => tokens = tokens2
    /\ FirstEof(tokens) > 0 => phase2 = "ready"
    /\ FirstEof(tokens2) > 0 => phase = "ready"

\* C10 witness: both runs reached Eof on an input whose comment line was inserted
\* between two lines of an indented block.
C10_Witness ==
    /\ FirstEof(tokens) > 0
    /\ FirstEof(tokens2) > 0
    /\ \E i \in 1..(Len(tokens) - 3) :
          /\ tokens[i] = Indent
          /\ RealToken(tokens[i + 1])
          /\ tokens[i + 2] = Newline
          /\ RealToken(tokens[i + 3])
    /\ \E i \in 4..(Len(source2) - 3) :
          /\ source2[i - 1] = "\n"
          /\ source2[i] = "#"
          /\ source2[i - 2] = "a"
          /\ source2[i - 3] = " "

\* The number of characters of source the stream has given out, the place
\* where the line that holds the character at pos starts, and the number of
\* spaces that line starts with.
Consumed == Len(source) - Len(lexer.in_.buf)
LineStart(pos) ==
    LET breaks == {i \in 1..pos : source[i] = "\n"}
    IN  IF breaks = {} THEN 0 ELSE CHOOSE i \in breaks : \A j \in breaks : j <= i
RECURSIVE SpacesFrom(_)
SpacesFrom(at) ==
    IF at <= Len(source) /\ source[at] = " " THEN 1 + SpacesFrom(at + 1) ELSE 0
LeadingSpaces(pos) == SpacesFrom(LineStart(pos) + 1)

\* The last call has produced the first real token of a line.
FirstOfLine ==
    /\ phase = "ready"
    /\ tokens # <<>>
    /\ RealToken(tokens[Len(tokens)])
    /\ Len(tokens) = 1 \/ ~RealToken(tokens[Len(tokens) - 1])

\* The place of the last token before the run of Indent and Dedent tokens
\* that ends at place e - 1 (0 if the run starts the sequence).
BeforeSteps(e) ==
    LET others == {j \in 1..(e - 1) : tokens[j] \notin {Indent, Dedent}}
    IN  IF others = {} THEN 0 ELSE CHOOSE j \in others : \A k \in others : k <= j

\* C21: no Indent or Dedent follows a real token directly; and when the first
\* real token of a line with n leading spaces has been produced, with the
\* level at m before the line, the tokens between the last Newline and it are
\* (n - m) / 2 Indent tokens if n > m, (m - n) / 2 Dedent tokens if n < m,
\* none if n = m, and the level is n.
C21_IndentationSteps ==
    /\ \A i \in 2..Len(tokens) :
          tokens[i] \in {Indent, Dedent} => ~RealToken(tokens[i - 1])
    /\ FirstOfLine =>
          LET e == Len(tokens)
              j == BeforeSteps(e)
              steps == SubSeq(tokens, j + 1, e - 1)
              m == 2 * Balance(SubSeq(tokens, 1, j))
              n == LeadingSpaces(Consumed)
          IN  /\ n > m => steps = [i \in 1..((n - m) \div 2) |-> Indent]
              /\ n < m => steps = [i \in 1..((m - n) \div 2) |-> Dedent]
              /\ n = m => steps = <<>>
              /\ lexer.str_indent_ = n

\* C21 witness: a line at level 4 has been followed by a line at level 0:
\* two Indent tokens before the first, two Dedent tokens before the second.
C21_Witness ==
    /\ FirstOfLine
    /\ Len(tokens) >= 8
    /\ SubSeq(tokens, 1, 2) = <<Indent, Indent>>
    /\ SubSeq(tokens, Len(tokens) - 2, Len(tokens) - 1) = <<Dedent, Dedent>>
    /\ lexer.str_indent_ = 0
    /\ LeadingSpaces(Consumed) = 0

\* The line that starts after place start begins with an odd number of
\* spaces, and carries a token: what follows the spaces is neither the end of
\* the line or of the input, nor a comment.
OddLogicalLine(start) ==
    LET n == SpacesFrom(start + 1)
        at == start + n + 1
    IN  /\ n % 2 = 1
        /\ at <= Len(source)
        /\ source[at] \notin {"\n", "#"}

\* C22: "Indent parsing error" has been raised only on a line that carries a
\* token and begins with an odd number of spaces, and an input that has such
\* a line is not lexed to Eof.
C22_OddIndentation ==
    /\ lexer.error = "Indent parsing error" => OddLogicalLine(LineStart(Consumed))
    /\ FirstEof(tokens) > 0 => \A start \in LineStarts(source) : ~OddLogicalLine(start)

\* The messages of the LexerErrors that the lexer throws.
LexerErrors ==
    {"Indent parsing error", "Operator parsing error", "String parsing error"}

\* C25: the constructor and every call of NextToken have ended, with a token or
\* with a LexerError.
C25_LexerTerminates ==
    phase # "new" =>
        \/ lexer.error = "" /\ phase = "ready" /\ tokens # <<>>
        \/ lexer.error \in LexerErrors /\ phase = "error"

(***************************************************************************)
(* Properties of the evaluator.                                            *)
(***************************************************************************)
\* What a program can observe of a machine: its scope, the fields of the
\* instances, the output and the exception.
Observable(m) == [closure |-> m.closure, heap |-> m.heap, out |-> m.out, error |-> m.error]

\* The left operand alone decides the result of the And or Or node.
ShortCircuits(node, left) ==
    \/ node.kind = "And" /\ ~IsTrue(left)
    \/ node.kind = "Or" /\ IsTrue(left)

\* C1: when And has been executed and its left operand yielded a falsy value,
\* or Or and its left operand a truthy one, the scope, the fields, the output
\* and the exception are what the execution of the left operand alone leaves:
\* the right operand has not been executed.
C1_ShortCircuit ==
    executed.node.kind \in {"And", "Or"} =>
        LET left == Execute(executed.node.lhs_, executed.pre)
        IN  ~Failed(left) /\ ShortCircuits(executed.node, left.val)
                => Observable(machine) = Observable(left.m)

\* C2: every finished method call that executed a Return node executed no
\* node of its body after it, and yielded the value of the Return's expression.
C2_ReturnStops ==
    \A i \in DOMAIN machine.calls :
        machine.calls[i].returned =>
            /\ ~machine.calls[i].late
            /\ machine.calls[i].result = machine.calls[i].retval

\* MethodCall as the claim C4 describes it: the receiver is evaluated, then
\* the arguments from left to right, then the method is dispatched.
ReceiverFirst(node, m) ==
    With(Execute(node.obj_, m),
         LAMBDA holder :
             IF Failed(holder) THEN holder
             ELSE With(ExecuteArgs(node.args_, <<>>, holder.m),
                       LAMBDA arg_values :
                           IF arg_values.m.error # "" THEN Result(NoneHolder, arg_values.m)
                           ELSE IF InstanceHasMethod(holder.val, node.method_name_,
                                                     Len(arg_values.values), arg_values.m)
                           THEN Call(holder.val, node.method_name_, arg_values.values,
                                     arg_values.m)
                           ELSE Raise("Wrong method call", arg_values.m)))

\* C4: a MethodCall leaves the scope, the fields, the output and the exception
\* that evaluating the receiver first, then the arguments from left to right,
\* then dispatching leaves, and yields the same value.
C4_ReceiverFirst ==
    executed.node.kind = "MethodCall" =>
        LET r == ReceiverFirst(executed.node, executed.pre)
        IN  /\ Observable(machine) = Observable(r.m)
            /\ executed.val = r.val

\* C5: every finished method call whose body executed no Return node yielded
\* the empty holder.
C5_NoReturnYieldsNone ==
    \A i \in DOMAIN machine.calls :
        ~machine.calls[i].returned => machine.calls[i].result = NoneHolder

\* A Comparison by Equal or NotEqual of a variable with itself has been executed.
ComparedWithItself ==
    /\ executed.node.kind = "Comparison"
    /\ executed.node.cmp_ \in {"Equal", "NotEqual"}
    /\ executed.node.lhs_ = executed.node.rhs_
    /\ executed.node.lhs_.kind = "VariableValue"

\* The value compared with itself.
ComparedValue == Execute(executed.node.lhs_, executed.pre).val

\* C6 as stated: for every value v, Equal(v, v) returns true and
\* NotEqual(v, v) returns false.
C6_EqualityDual ==
    ComparedWithItself =>
        /\ machine.error = ""
        /\ executed.val = Bool(executed.node.cmp_ = "Equal")

\* C6 amended: for v None, a Bool, a Number or a String, Equal(v, v) returns
\* true and NotEqual(v, v) false; for an instance whose class has __eq__ of one
\* parameter, Equal(v, v) returns the Bool that v.__eq__(v) returns and
\* NotEqual(v, v) its negation; for a Class object and for an instance without
\* such a method both throw "Objects cannot be compared".
C6_EqualityDualOfValues ==
    ComparedWithItself =>
        LET v == ComparedValue
            eq == Call(v, "__eq__", <<v>>, executed.pre)
        IN  IF v.t \in {"None", "Bool", "Number", "String"}
            THEN machine.error = "" /\ executed.val = Bool(executed.node.cmp_ = "Equal")
            ELSE IF InstanceHasMethod(v, "__eq__", 1, executed.pre)
            THEN eq.val.t = "Bool" =>
                    /\ machine.error = ""
                    /\ executed.val = Bool((executed.node.cmp_ = "Equal") = eq.val.b)
            ELSE machine.error = "Objects cannot be compared"

\* NotEqual has been applied to v and v for an instance v whose class has no
\* __eq__ of one parameter, and has thrown.
C6_Witness ==
    /\ ComparedWithItself
    /\ executed.node.cmp_ = "NotEqual"
    /\ ComparedValue.t = "ClassInstance"
    /\ machine.error = "Objects cannot be compared"

\* The scope that ClassInstance::Call is to build for a finished call: self
\* and the formal parameters of the method, bound to the receiver and to the
\* arguments in their order.
ParamsOf(call) == GetMethod(ClassOf(call.self, machine), call.method).formal_params
FreshScope(call) ==
    /\ DOMAIN call.entry = {"self"} \cup Range(ParamsOf(call))
    /\ call.entry["self"] = call.self
    /\ \A i \in DOMAIN ParamsOf(call) : call.entry[ParamsOf(call)[i]] = call.args[i]

\* C12: every finished call ran its body on a scope of exactly self and the
\* parameters; a body that reads a name of its caller raises the
\* unknown-variable error; a body that assigned g before a nested or
\* recursive call assigned g still reads its own g afterwards; and a method
\* call statement leaves the scope of its caller as the evaluation of its
\* arguments left it.
C12_FreshScopePerCall ==
    /\ \A i \in DOMAIN machine.calls :
          /\ FreshScope(machine.calls[i])
          /\ machine.calls[i].method \in {"nest", "rec"} =>
                /\ machine.calls[i].result = machine.calls[i].args[1]
                /\ machine.calls[i].exit["g"] = machine.calls[i].args[1]
    /\ executed.node.kind = "MethodCall" =>
          /\ machine.closure =
                ExecuteArgs(executed.node.args_, <<>>, executed.pre).m.closure
          /\ (executed.node.method_name_ = "peek" /\ "g" \in DOMAIN executed.pre.closure)
                => machine.error = "Unknown variable"

\* rec(2) has finished: three calls, each with its own g, and the caller
\* still has its g and p.
C12_Witness ==
    /\ executed.node = CallOf("s", "rec", <<NumericConst(MaxRec)>>)
    /\ machine.error = ""
    /\ Len(machine.calls) = MaxRec + 1
    /\ \A i \in DOMAIN machine.calls : machine.calls[i].exit["g"] = Number(i - 1)
    /\ executed.val = Number(MaxRec)
    /\ machine.closure["g"] = Number(9)
    /\ machine.closure["p"] = String("b")

\* A Comparison of the variables x and y has been executed; the values
\* they held.
ComparedPair ==
    /\ executed.node.kind = "Comparison"
    /\ executed.node.lhs_ = Var("x")
    /\ executed.node.rhs_ = Var("y")
Lhs == executed.pre.closure["x"]
Rhs == executed.pre.closure["y"]
SameSimpleKind(lhs, rhs) == lhs.t = rhs.t /\ lhs.t \in {"Bool", "Number", "String"}

\* C13: Equal(lhs, rhs) returns true for two empty holders, value equality
\* for two Bools, two Numbers or two Strings, the truth value of what
\* lhs.__eq__(rhs) returns, whatever it returns, when lhs is an instance with
\* __eq__ of one parameter, and raises "Objects cannot be compared" in every
\* other case.
C13_EqualDispatch ==
    (ComparedPair /\ executed.node.cmp_ = "Equal") =>
        IF Lhs.t = "None" /\ Rhs.t = "None"
        THEN machine.error = "" /\ executed.val = Bool(TRUE)
        ELSE IF SameSimpleKind(Lhs, Rhs)
        THEN machine.error = "" /\ executed.val = Bool(Lhs = Rhs)
        ELSE IF InstanceHasMethod(Lhs, "__eq__", 1, executed.pre)
        THEN /\ machine.error = ""
             /\ executed.val =
                    Bool(IsTrue(Call(Lhs, "__eq__", <<Rhs>>, executed.pre).val))
        ELSE machine.error = "Objects cannot be compared"

\* Less and Equal applied to the pair, each on the machine the Comparison
\* started from; whether a comparison returned, and whether it raised the
\* comparison error.
LessOfPair == Less(Lhs, Rhs, executed.pre)
EqualOfPair == Equal(Lhs, Rhs, executed.pre)
Returns(answer) == answer.m.error = ""
Raises(answer) == answer.m.error = "Objects cannot be compared"
Derived(cmp, less, equal) ==
    CASE cmp = "NotEqual" -> ~equal
      [] cmp = "Greater" -> ~(less \/ equal)
      [] cmp = "LessOrEqual" -> less \/ equal
      [] cmp = "GreaterOrEqual" -> ~less
WhenBothReturn ==
    (Returns(LessOfPair) /\ Returns(EqualOfPair)
        /\ executed.node.cmp_ \in {"NotEqual", "Greater", "LessOrEqual", "GreaterOrEqual"})
    => /\ machine.error = ""
       /\ executed.val = Bool(Derived(executed.node.cmp_, LessOfPair.ans, EqualOfPair.ans))
WhenLessRaises ==
    (Raises(LessOfPair)
        /\ executed.node.cmp_ \in {"Greater", "LessOrEqual", "GreaterOrEqual"})
    => machine.error = "Objects cannot be compared"

\* C14 as stated: on a pair where Less and Equal both return, the four
\* derived comparisons return what their definitions from Less and Equal
\* give; on a pair where Less raises, Greater, LessOrEqual and GreaterOrEqual
\* return nothing, and on a pair where Equal raises, NotEqual, Greater and
\* LessOrEqual return nothing.
C14_DerivedComparisons ==
    ComparedPair =>
        /\ WhenBothReturn
        /\ WhenLessRaises
        /\ (Raises(EqualOfPair)
                /\ executed.node.cmp_ \in {"NotEqual", "Greater", "LessOrEqual"})
           => machine.error # ""

\* C14 amended: as stated, except that on a pair where Equal raises, Greater
\* and LessOrEqual raise only if Less did not return true: if Less returned
\* true, Equal is not called, LessOrEqual returns true and Greater false.
C14_DerivedComparisonsShortCircuit ==
    ComparedPair =>
        /\ WhenBothReturn
        /\ WhenLessRaises
        /\ (Raises(EqualOfPair) /\ executed.node.cmp_ = "NotEqual")
           => machine.error = "Objects cannot be compared"
        /\ (Raises(EqualOfPair) /\ executed.node.cmp_ \in {"Greater", "LessOrEqual"}
                /\ Returns(LessOfPair))
           => IF LessOfPair.ans
              THEN /\ machine.error = ""
                   /\ executed.val = Bool(executed.node.cmp_ = "LessOrEqual")
                   /\ machine.out = LessOfPair.m.out
              ELSE machine.error = "Objects cannot be compared"

\* LessOrEqual has returned true on an instance whose __lt__ returns true and
\* a Number, a pair on which Equal raises.
C14_Witness ==
    /\ ComparedPair
    /\ executed.node.cmp_ = "LessOrEqual"
    /\ Lhs.t = "ClassInstance"
    /\ Rhs = Number(0)
    /\ Raises(EqualOfPair)
    /\ LessOfPair.ans
    /\ machine.error = ""
    /\ executed.val = Bool(TRUE)

\* The calls of __init__ on the instance that the NewInstance executed last
\* yielded, among the calls finished since it started.
InitCalls ==
    {i \in DOMAIN machine.calls \ DOMAIN executed.pre.calls :
        /\ machine.calls[i].method = "__init__"
        /\ machine.calls[i].self = executed.val}

\* The classes from the class named name up its parents.
Ancestry(name) ==
    CASE name = "Child" -> {Child, Base}
      [] name = "Hidden" -> {Hidden, Base}
      [] OTHER -> {ClassNamed(name)}

\* What NewInstance does when initialised tells whether __init__ is to be
\* invoked: the instance is new and of the class, instances created before
\* are untouched, __init__ has been invoked once on it (starting from no
\* field) or not at all, and without __init__ nothing else has changed.
NewInstanceWhen(initialised) ==
    executed.node.kind = "NewInstance" =>
        IF initialised
        THEN machine.error = "" =>
                /\ executed.val.t = "ClassInstance"
                /\ executed.val.id \notin DOMAIN executed.pre.heap
                /\ machine.heap[executed.val.id].class = executed.node.class_
                /\ \A id \in DOMAIN executed.pre.heap :
                        machine.heap[id] = executed.pre.heap[id]
                /\ Cardinality(InitCalls) = 1
                /\ \A i \in InitCalls :
                        /\ machine.calls[i].args =
                             ExecuteArgs(executed.node.args_, <<>>, executed.pre).values
                        /\ machine.heap[executed.val.id].fields =
                             IF machine.calls[i].args = <<>> THEN [f |-> Number(1)]
                             ELSE [g |-> machine.calls[i].args[1]]
        ELSE /\ machine.error = ""
             /\ executed.val.t = "ClassInstance"
             /\ executed.val.id \notin DOMAIN executed.pre.heap
             /\ InitCalls = {}
             /\ machine.heap =
                    Append(executed.pre.heap,
                           [class |-> executed.node.class_, fields |-> EmptyClosure])
             /\ [machine EXCEPT !.heap = executed.pre.heap] = executed.pre

\* C15 as stated: __init__ is invoked exactly once if and only if the class
\* or one of its ancestors defines __init__ with as many parameters as there
\* are arguments.
C15_NewInstance ==
    executed.node.kind = "NewInstance" =>
        NewInstanceWhen(\E cls \in Ancestry(executed.node.class_) :
                            HasMethod(cls, "__init__", Len(executed.node.args_)))

\* C15 amended: __init__ is invoked exactly once if and only if the __init__
\* that the class has under that name, its own or else the nearest
\* ancestor's, has as many parameters as there are arguments.
C15_NewInstanceNearestInit ==
    executed.node.kind = "NewInstance" =>
        NewInstanceWhen(HasMethod(ClassNamed(executed.node.class_), "__init__",
                                  Len(executed.node.args_)))

\* Hidden() has been executed after another instance was created: Base has
\* __init__ of no parameter, Hidden hides it, and the new instance has no
\* field.
C15_Witness ==
    /\ executed.node = NewInstance("Hidden", <<>>)
    /\ executed.val = Instance(2)
    /\ machine.heap[2].fields = EmptyClosure
    /\ machine.heap[1] = [class |-> "Child", fields |-> [f |-> Number(1)]]
    /\ machine.error = ""

\* The printed form of a value that is not an instance with __str__.
Form(object) ==
    CASE object.t = "None" -> "None"
      [] object.t = "Number" -> ToString(object.n)
      [] object.t = "String" -> object.s
      [] object.t = "Bool" -> IF object.b THEN "True" ELSE "False"
      [] object.t = "Class" -> "Class " \o object.name
      [] object.t = "ClassInstance" -> "<" \o ToString(object.id) \o ">"

\* The printed form of a value on machine m: for an instance with __str__ of
\* no parameter, the String that the call returns.
FormOn(object, m) ==
    IF InstanceHasMethod(object, "__str__", 0, m)
    THEN Call(object, "__str__", <<>>, m).val.s
    ELSE Form(object)

\* The forms of values, each but the first after one space.
RECURSIVE Spaced(_, _)
Spaced(values, m) ==
    IF values = <<>> THEN ""
    ELSE IF Len(values) = 1 THEN FormOn(values[1], m)
    ELSE FormOn(values[1], m) \o " " \o Spaced(Tail(values), m)

\* The arguments of the Print executed last, evaluated in order on the
\* machine it started from; whether evaluating them and forming their texts
\* writes nothing itself.
PrintedArgs == ExecuteArgs(executed.node.args_, <<>>, executed.pre)
Quiet ==
    /\ PrintedArgs.m.out = executed.pre.out
    /\ \A i \in DOMAIN PrintedArgs.values :
          InstanceHasMethod(PrintedArgs.values[i], "__str__", 0, executed.pre)
          => Call(PrintedArgs.values[i], "__str__", <<>>, executed.pre).m.out
             = executed.pre.out

\* C16: a Print that ends without an exception has evaluated its arguments
\* in order and yields the empty holder; when the arguments write nothing
\* themselves, it has appended their forms, one space between consecutive
\* ones, and one newline, None for an empty holder and only the newline when
\* there is no argument.
C16_Print ==
    (executed.node.kind = "Print" /\ machine.error = "") =>
        /\ executed.val = NoneHolder
        /\ machine.closure = PrintedArgs.m.closure
        /\ Quiet => machine.out = executed.pre.out \o Spaced(PrintedArgs.values, executed.pre)
                                   \o "\n"
        /\ executed.node.args_ = <<>> => machine.out = executed.pre.out \o "\n"

\* print None, s has been executed, s an instance whose __str__ yields
\* "named".
C16_Witness ==
    /\ executed.node = PrintNode(<<None, Var("s")>>)
    /\ machine.error = ""
    /\ Quiet
    /\ machine.out = "None named\n"
    /\ executed.val = NoneHolder

\* The operands of the Div executed last, evaluated left then right on the
\* machine it started from.
Operands == ExecuteArgs(<<executed.node.lhs_, executed.node.rhs_>>, <<>>, executed.pre)

\* q is a / b truncated toward zero: the remainder is smaller than b in
\* absolute value and is zero or has the sign of a.
Truncated(q, a, b) ==
    LET r == a - q * b
    IN  /\ IF b > 0 THEN -b < r /\ r < b ELSE b < r /\ (r <= 0 \/ b < -r)
        /\ r = 0 \/ (r > 0) = (a > 0)

\* Div on operands that evaluated to a and b has added an error and nothing
\* else to what the evaluation of the operands left.
OnlyRaised(error) == machine = [Operands.m EXCEPT !.error = error]

\* C17: a Div whose operands evaluate to Numbers a and b yields a / b
\* truncated toward zero if b is not 0, and raises "Denominator is 0" if it
\* is; if an operand is not a Number it raises an error; in both error cases
\* the output and the scope are as the operands left them.
C17_Div ==
    (executed.node.kind = "Div" /\ Operands.m.error = "") =>
        LET a == Operands.values[1]
            b == Operands.values[2]
        IN  IF a.t = "Number" /\ b.t = "Number"
            THEN IF b.n # 0
                 THEN /\ machine.error = ""
                      /\ machine = Operands.m
                      /\ executed.val.t = "Number"
                      /\ Truncated(executed.val.n, a.n, b.n)
                 ELSE OnlyRaised("Denominator is 0")
            ELSE OnlyRaised("MULT is unavailable")

\* The values the claim C18 calls true: Bool true, a Number that is not 0,
\* a String that is not empty.
Truthy(value) ==
    \/ value = Bool(TRUE)
    \/ value.t = "Number" /\ value.n # 0
    \/ value.t = "String" /\ value.s # ""

\* The IfElse executed last, its condition evaluated on the machine it
\* started from, and the branch that the value of the condition selects.
Condition == Execute(executed.node.condition_, executed.pre)
Selected ==
    IF Truthy(Condition.val) THEN executed.node.if_body_ ELSE executed.node.else_body_

\* C18: an IfElse leaves what evaluating its condition once and then
\* executing the selected branch leaves, and yields what the branch yields;
\* with a false condition and no else branch it leaves what the condition left
\* and yields the empty holder.
C18_IfElseTruthiness ==
    (executed.node.kind = "IfElse" /\ Condition.m.error = "") =>
        IF Selected = Nullptr
        THEN machine = Condition.m /\ executed.val = NoneHolder
        ELSE /\ machine = Execute(Selected, Condition.m).m
             /\ executed.val = Execute(Selected, Condition.m).val

\* An IfElse on an instance, without else branch, has been executed: nothing
\* was written and the result is the empty holder.
C18_Witness ==
    /\ executed.node = IfElse(Var("p"), Say("then"), Nullptr)
    /\ Condition.val = Instance(1)
    /\ machine = executed.pre
    /\ executed.val = NoneHolder

\* The argument of the Stringify executed last, evaluated on the machine it
\* started from, and the call of __str__ on its value.
Argument == Execute(executed.node.arg_, executed.pre)
StrCall == Call(Argument.val, "__str__", <<>>, Argument.m)

\* C19: a Stringify whose argument evaluates to an instance with __str__ of
\* no parameter yields what the call of __str__ yields and leaves what it
\* leaves; for any other value it yields the String of the printed form of
\* the value, "None" for the empty holder, and leaves what the argument left.
C19_Stringify ==
    (executed.node.kind = "Stringify" /\ Argument.m.error = "") =>
        IF InstanceHasMethod(Argument.val, "__str__", 0, Argument.m)
        THEN StrCall.m.error = "" =>
                /\ machine = StrCall.m
                /\ executed.val = StrCall.val
        ELSE /\ machine = Argument.m
             /\ executed.val = String(Form(Argument.val))

\* The first i children of commands executed one after another on m, none
\* left out: the result of the last of them.
RECURSIVE Prefix(_, _, _)
Prefix(commands, i, m) ==
    IF i = 0 THEN Result(NoneHolder, m)
    ELSE Execute(commands[i], Prefix(commands, i - 1, m).m)

\* Child i is one at which the claim C20 says the Compound stops.
Stopping(commands, i, m) ==
    \/ commands[i].kind = "Return"
    \/ /\ commands[i].kind \in {"IfElse", "Compound"}
       /\ Prefix(commands, i, m).val # NoneHolder

FirstStopping(commands, m) ==
    {i \in DOMAIN commands :
        /\ Stopping(commands, i, m)
        /\ \A j \in 1..(i - 1) : ~Stopping(commands, j, m)}

\* C20: a Compound that raises nothing leaves what its children up to the
\* first stopping one leave, executed in order, and yields what that child
\* yields; without a stopping child it leaves what all its children leave
\* and yields the empty holder.
C20_CompoundEarlyExit ==
    (executed.node.kind = "Compound" /\ machine.error = "") =>
        LET commands == executed.node.commands_
            first == FirstStopping(commands, executed.pre)
        IN  IF first = {}
            THEN /\ machine = Prefix(commands, Len(commands), executed.pre).m
                 /\ executed.val = NoneHolder
            ELSE \A i \in first :
                    /\ machine = Prefix(commands, i, executed.pre).m
                    /\ executed.val = Prefix(commands, i, executed.pre).val

\* A Compound has stopped at its first child, an IfElse that yielded 2: the
\* second child has written nothing.
C20_Witness ==
    /\ executed.node = Compound(<<IfElse(BoolConst(TRUE), NumericConst(2), Nullptr),
                                  Say("say")>>)
    /\ executed.val = Number(2)
    /\ machine.out = ""

\* The last statement has thrown a runtime_error, and the scope and the fields
\* of every instance are those of the machine m.
RaisedOn(m) ==
    /\ machine.error \notin {"", UndefinedBehaviour}
    /\ machine.closure = m.closure
    /\ machine.heap = m.heap

\* What the names lead to from the value obj, by the fields of the machine m:
\* the value, or the reason why there is none.
RECURSIVE Followed(_, _, _)
Followed(obj, names, m) ==
    IF names = <<>> THEN [found |-> "value", val |-> obj]
    ELSE IF obj.t # "ClassInstance" THEN [found |-> "no instance", val |-> obj]
    ELSE IF Head(names) \notin DOMAIN m.heap[obj.id].fields
    THEN [found |-> "no field", val |-> obj]
    ELSE Followed(m.heap[obj.id].fields[Head(names)], Tail(names), m)

Dotted(chain, m) ==
    IF chain[1] \notin DOMAIN m.closure
    THEN [found |-> "no name", val |-> NoneHolder]
    ELSE Followed(m.closure[chain[1]], Tail(chain), m)

\* chain leads to no instance on m, and names either what is absent ("Unknown
\* variable" is due) or a value that is None or of another type.
NoInstance(chain, m) ==
    Dotted(chain, m).found # "value" \/ Dotted(chain, m).val.t # "ClassInstance"
Absent(chain, m) == Dotted(chain, m).found \in {"no name", "no field"}

\* A dotted name: through None or a value that is no instance it raises an
\* error; a name or a field that is absent raises "Unknown variable".
DottedAccess ==
    executed.node.kind = "VariableValue" =>
        LET target == Dotted(executed.node.var_name_chain_, executed.pre)
        IN  /\ target.found = "no instance" => RaisedOn(executed.pre)
            /\ target.found \in {"no name", "no field"} =>
                   RaisedOn(executed.pre) /\ machine.error = "Unknown variable"
            /\ target.found = "value" => machine.error = "" /\ executed.val = target.val

\* The last statement is a method call or a field assignment on a dotted name.
OnTarget(kind) == executed.node.kind = kind /\ executed.node.obj_.kind = "VariableValue"

\* The target of the last statement leads to no instance on m: the statement
\* has raised an error, "Unknown variable" for an absent name or field, and
\* has left the scope and the fields as they are on m.
TargetRaisedOn(m) ==
    LET chain == executed.node.obj_.var_name_chain_
    IN  /\ NoInstance(chain, m) => RaisedOn(m)
        /\ Absent(chain, m) => machine.error = "Unknown variable"

\* A method call on a receiver that is None or no instance raises an error
\* and changes neither the scope nor a field.
ReceiverTargets == OnTarget("MethodCall") => TargetRaisedOn(executed.pre)

\* A method call whose arguments have been evaluated, on a receiver that is
\* then None or no instance, raises an error and leaves the scope and the
\* fields as the evaluation of the arguments left them.
CallArguments == ExecuteArgs(executed.node.args_, <<>>, executed.pre)
ReceiverTargetsAfterArguments ==
    (OnTarget("MethodCall") /\ CallArguments.m.error = "") => TargetRaisedOn(CallArguments.m)

\* A field assignment to an object that is None or no instance raises an
\* error and changes neither the scope nor a field.
AssignedTargets == OnTarget("FieldAssignment") => TargetRaisedOn(executed.pre)

Defines(name, pre, after, val) ==
    /\ after.error = ""
    /\ val = NoneHolder
    /\ after.closure = Bind(pre.closure, name, ClassObject(name))
    /\ after.heap = pre.heap
    /\ after.out = pre.out

\* C24: every execution of a ClassDefinition node, the first and every later
\* one, in the scope of the program or in the scope of a method call, binds
\* the name of the class to the class and yields None.
C24_ClassDefinitionAgain ==
    /\ executed.node.kind = "ClassDefinition" =>
           Defines(executed.node.class_, executed.pre, machine, executed.val)
    /\ executed.node = CallOf("d", "define", <<>>) =>
           /\ machine.error = ""
           /\ executed.val = ClassObject("Inner")
           /\ machine.closure = executed.pre.closure

\* What the right-hand side of the assignment executed last yields.
RightHandSide == Execute(executed.node.value_, executed.pre)

\* An Assignment binds its name to the very value that its right-hand side
\* yielded: no instance is made, no other name and no field is changed.
StoresHandle ==
    (executed.node.kind = "Assignment" /\ RightHandSide.m.error = "") =>
        /\ machine.error = ""
        /\ executed.val = RightHandSide.val
        /\ machine.closure = Bind(RightHandSide.m.closure, executed.node.var_name_,
                                  RightHandSide.val)
        /\ machine.heap = RightHandSide.m.heap

\* The names that hold the instance ins in the closure.
NamesOf(ins, closure) == {name \in DOMAIN closure : closure[name] = ins}

\* A FieldAssignment to an instance that a name of the scope still holds when
\* the right-hand side has been evaluated puts the very value that the
\* right-hand side yielded into the field of that instance: no instance is
\* made, no name and no other field is changed, and every name that holds the
\* instance reads the value back.
WritesThrough ==
    (OnTarget("FieldAssignment") /\ RightHandSide.m.error = "") =>
        LET target == Dotted(executed.node.obj_.var_name_chain_, executed.pre)
            field == executed.node.field_name_
        IN  (/\ target.found = "value"
             /\ target.val.t = "ClassInstance"
             /\ NamesOf(target.val, RightHandSide.m.closure) # {})
            => /\ machine.error = ""
               /\ executed.val = RightHandSide.val
               /\ machine.closure = RightHandSide.m.closure
               /\ machine.heap = [RightHandSide.m.heap EXCEPT ![target.val.id].fields =
                                      Bind(@, field, RightHandSide.val)]
               /\ \A name \in NamesOf(target.val, machine.closure) :
                      Dotted(<<name, field>>, machine) =
                          [found |-> "value", val |-> RightHandSide.val]

\* C26: Assignment and FieldAssignment store the handle that the right-hand
\* side yielded and copy no instance; a field written through one name of an
\* instance is read back through every other name of it; binding a name anew
\* changes no other name and no field.
C26_ReferenceSemantics == StoresHandle /\ WritesThrough

\* A field has been written through b, and p, which holds the same instance,
\* reads it back.
C26_Witness ==
    /\ executed.node = FieldAssignment(Var("b"), "f", NumericConst(7))
    /\ machine.error = ""
    /\ machine.closure["p"] = machine.closure["b"]
    /\ Dotted(<<"p", "f">>, executed.pre).val = Number(1)
    /\ Dotted(<<"p", "f">>, machine).val = Number(7)

(***************************************************************************)
(* Properties of the classes.                                              *)
(***************************************************************************)
\* The method of the nearest class that defines name, from the built class
\* number index up its parents; NoMethod if none defines it.
RECURSIVE Nearest(_, _)
Nearest(index, name) ==
    IF index = 0 THEN NoMethod
    ELSE IF name \in classes[index].own THEN Defined(index, name)
    ELSE Nearest(classes[index].parent, name)

\* C11: in every class built so far, whatever classes were built after it,
\* GetMethod(name) returns the method defined by the nearest class of its
\* parent chain that defines name (the class itself first), and nothing when
\* no class of the chain defines it.
C11_InheritanceOverride ==
    \A index \in DOMAIN classes, name \in MethodNames \cup {"h"} :
        GetMethod(classes[index].cls, name) = Nearest(index, name)

\* A class overrides a method of its parent and inherits another one from
\* the parent of its parent; the overridden one is looked up in it and in the
\* parent.
C11_Witness ==
    /\ Len(classes) = 3
    /\ classes[2].parent = 1 /\ classes[3].parent = 2
    /\ classes[1].own = {"f", "g"} /\ classes[2].own = {"f"} /\ classes[3].own = {"f"}
    /\ GetMethod(classes[3].cls, "g") = Defined(1, "g")
    /\ GetMethod(classes[3].cls, "f") = Defined(3, "f")
    /\ looked = [class |-> 2, name |-> "f", method |-> Defined(2, "f")]

====
